---- MODULE Spec2Model ----
(***************************************************************************)
(* Model of the permission-mapping admin tool (Role / Feature / Menu /     *)
(* Action mapping and Package / Feature mapping).                          *)
(*                                                                         *)
(* Representation.                                                         *)
(*  - A JavaScript object used as a dictionary is a TLA+ function whose    *)
(*    domain is the set of its (string) keys.  Key iteration order is not  *)
(*    modelled: every loop of the code over Object.entries treats each     *)
(*    key independently.                                                   *)
(*  - A JavaScript Set of strings is a TLA+ set of strings; its insertion  *)
(*    order only decides the order in which Array.from lists it.           *)
(*  - A JSON value (what JSON.parse returns) is a tagged record, see JNull *)
(*    .. JObj.  Numbers and strings are distinct values: String(x) is the  *)
(*    conversion JsString, not the identity.                               *)
(*  - Entity ids are integers; mapping keys are their decimal strings      *)
(*    (operator Str).                                                      *)
(***************************************************************************)
EXTENDS Integers, Sequences, FiniteSets, TLC

VARIABLES
    \* Role admin (RoleFeaturePermissionAdmin)
    roles,        \* the Role list
    perms,        \* the permission Action list
    menus,        \* the Menu list
    mapping,      \* roleId -> featureId -> menuId -> Set of actionId
    stored,       \* the localStorage item "role-feature-permission-admin-v1"
    crud,         \* editingId and draft of the Roles CrudList
    reading,      \* the CSV text a FileReader is reading, if any
    rolesDirty,   \* roles changed in the last commit: the [roles] effect is due
    persistDirty, \* mapping, roles or perms changed: the persist effect is due
    lastIdEdit,   \* history: the last save that edited a role id, if it was
                  \* the last user operation
    \* Package admin (PackageFeatureAdmin)
    packages,         \* the Package list
    pkgFeatures,      \* the Feature list
    pkgMapping,       \* packageId -> Set of featureId
    pkgStored,        \* the localStorage item "pkg-feature-admin-state-v1"
    pkgReading,       \* the CSV text a FileReader is reading, if any, with
                      \* the lists its onload handler closed over
    packagesDirty,    \* packages changed: the [packages] effect is due
    featuresDirty,    \* features changed: the [features] effect is due
    pkgPersistDirty,  \* packages, features or mapping changed: persist is due
    \* harness of the pure operations
    hPc,      \* harness: which pure operation has been applied
    hMap,     \* harness: the in-memory mapping given to the operation
    hRaw,     \* harness: the JSON document given to / produced by the codec
    hArgs,    \* harness: the arguments of the applied operation
    hOut      \* harness: the result of the operation

rvars == <<roles, perms, menus, mapping, stored, crud, reading, rolesDirty,
           persistDirty, lastIdEdit>>
pvars == <<packages, pkgFeatures, pkgMapping, pkgStored, pkgReading,
           packagesDirty, featuresDirty, pkgPersistDirty>>
hvars == <<hPc, hMap, hRaw, hArgs, hOut>>
vars == <<rvars, pvars, hvars>>

----------------------------------------------------------------------------
(* Dictionaries *)

EmptyObj == [k \in {} |-> {}]

Put(f, k, v) == [x \in (DOMAIN f) \cup {k} |-> IF x = k THEN v ELSE f[x]]

Del(f, k) == [x \in (DOMAIN f) \ {k} |-> f[x]]

Has(f, k) == k \in DOMAIN f

\* f[k] ??= v
PutIfAbsent(f, k, v) == IF Has(f, k) THEN f ELSE Put(f, k, v)

----------------------------------------------------------------------------
(* String(n) for an integer n *)

Digit == <<"0", "1", "2", "3", "4", "5", "6", "7", "8", "9">>

RECURSIVE StrNat(_)
StrNat(n) == IF n < 10 THEN Digit[n + 1]
             ELSE StrNat(n \div 10) \o Digit[(n % 10) + 1]

Str(n) == IF n < 0 THEN "-" \o StrNat(0 - n) ELSE StrNat(n)

----------------------------------------------------------------------------
(* JSON values *)

JNull == [t |-> "null"]
JBool(b) == [t |-> "bool", b |-> b]
JNum(n) == [t |-> "num", n |-> n]
JStr(s) == [t |-> "str", s |-> s]
JArr(a) == [t |-> "arr", a |-> a]
JObj(o) == [t |-> "obj", o |-> o]

\* Array.isArray(v)
IsArray(v) == v.t = "arr"

\* v && typeof v === "object"  (true of arrays and of plain objects)
IsObjectLike(v) == v.t \in {"arr", "obj"}

\* Object.entries(v) of an object-like value: an array lists its elements
\* under the keys "0", "1", ...
Entries(v) ==
    IF v.t = "obj" THEN v.o
    ELSE [k \in {Str(i - 1) : i \in DOMAIN v.a} |->
             v.a[CHOOSE i \in DOMAIN v.a : Str(i - 1) = k]]

RECURSIVE JsJoin(_)
RECURSIVE JsString(_)
\* String(x) of a JSON value
JsString(x) ==
    CASE x.t = "null" -> "null"
      [] x.t = "bool" -> IF x.b THEN "true" ELSE "false"
      [] x.t = "num"  -> Str(x.n)
      [] x.t = "str"  -> x.s
      [] x.t = "arr"  -> JsJoin(x.a)
      [] x.t = "obj"  -> "[object Object]"

\* Array.prototype.join(","): null elements give the empty string
JsJoin(a) ==
    IF a = <<>> THEN ""
    ELSE LET piece(e) == IF e.t = "null" THEN "" ELSE JsString(e)
         IN  IF Len(a) = 1 THEN piece(a[1])
             ELSE piece(a[1]) \o "," \o JsJoin(Tail(a))

\* new Set(arr.map((x) => String(x)))
StringSet(arr) == {JsString(arr[i]) : i \in DOMAIN arr}

RECURSIVE SetToSeq(_)
SetToSeq(S) == IF S = {} THEN <<>>
               ELSE LET x == CHOOSE y \in S : TRUE
                    IN  <<x>> \o SetToSeq(S \ {x})

\* Array.from(set) of a Set of strings, as JSON: one string element per
\* member (listed in one fixed order; the code lists insertion order)
ArrayFrom(S) == LET s == SetToSeq(S) IN [i \in DOMAIN s |-> JStr(s[i])]

----------------------------------------------------------------------------
(* Persistence codec of the Role scenario *)

\* The sentinel menu key of the legacy shape
LegacyMenuKey == "-1"

\* variant: menus whose action set is empty are not written
toPersistRFMA_skipEmpty(map) ==
    JObj([rid \in DOMAIN map |->
        JObj([fid \in DOMAIN map[rid] |->
            JObj([mid \in {m \in DOMAIN map[rid][fid] : map[rid][fid][m] # {}} |->
                JArr(ArrayFrom(map[rid][fid][mid]))])])])

toPersistRFMA(map) ==
    JObj([rid \in DOMAIN map |->
        JObj([fid \in DOMAIN map[rid] |->
            JObj([mid \in DOMAIN map[rid][fid] |->
                JArr(ArrayFrom(map[rid][fid][mid]))])])])

\* the inner loop over one feature's menus: only array values are kept
DecodeMenus(menusObj) ==
    LET byMenu == Entries(menusObj)
        kept == {mid \in DOMAIN byMenu : IsArray(byMenu[mid])}
    IN  [mid \in kept |-> StringSet(byMenu[mid].a)]

\* variant: no legacy branch, an array is read like a nested object
DecodeFeatures_noLegacy(byFeature) ==
    IF ~IsObjectLike(byFeature) THEN EmptyObj
    ELSE LET ents == Entries(byFeature)
             kept == {fid \in DOMAIN ents : IsObjectLike(ents[fid])}
         IN  [fid \in kept |-> DecodeMenus(ents[fid])]

\* the loop over one role's features
DecodeFeatures(byFeature) ==
    IF ~IsObjectLike(byFeature) THEN EmptyObj
    ELSE LET ents == Entries(byFeature)
             kept == {fid \in DOMAIN ents : IsObjectLike(ents[fid])}
         IN  [fid \in kept |->
                IF IsArray(ents[fid])
                THEN [mid \in {LegacyMenuKey} |-> StringSet(ents[fid].a)]
                ELSE DecodeMenus(ents[fid])]

\* variant: the shape is decided once for the whole document (legacy as
\* soon as one feature entry is an array), nested entries are then dropped
fromPersistRFMA_docShape(raw) ==
    IF ~IsObjectLike(raw) THEN EmptyObj
    ELSE LET byRole == Entries(raw)
             feats(rid) == IF IsObjectLike(byRole[rid])
                           THEN Entries(byRole[rid]) ELSE EmptyObj
             legacyDoc == \E rid \in DOMAIN byRole :
                             \E fid \in DOMAIN feats(rid) :
                                 IsArray(feats(rid)[fid])
         IN  [rid \in DOMAIN byRole |->
                LET d == DecodeFeatures(byRole[rid])
                IN  IF legacyDoc
                    THEN [fid \in {f \in DOMAIN d : IsArray(feats(rid)[f])} |->
                             d[fid]]
                    ELSE d]

\* variant: one malformed fragment aborts the whole restore
fromPersistRFMA_abort(raw) ==
    IF ~IsObjectLike(raw) THEN EmptyObj
    ELSE LET byRole == Entries(raw)
             feats(rid) == IF IsObjectLike(byRole[rid])
                           THEN Entries(byRole[rid]) ELSE EmptyObj
             malformed == \E rid \in DOMAIN byRole :
                             \/ ~IsObjectLike(byRole[rid])
                             \/ \E fid \in DOMAIN feats(rid) :
                                    ~IsObjectLike(feats(rid)[fid])
         IN  IF malformed THEN EmptyObj
             ELSE [rid \in DOMAIN byRole |-> DecodeFeatures(byRole[rid])]

fromPersistRFMA(raw) ==
    IF ~IsObjectLike(raw) THEN EmptyObj
    ELSE LET byRole == Entries(raw)
         IN  [rid \in DOMAIN byRole |-> DecodeFeatures(byRole[rid])]

----------------------------------------------------------------------------
(* Mapping engine of the Role scenario.  A role entity is a record with an *)
(* integer id and a name; `roles` is the ordered list of them.             *)

RoleIdsOf(rs) == {Str(rs[i].id) : i \in DOMAIN rs}

\* deep copy: a fresh object per role, per feature, and a fresh Set per menu
cloneMapping(m) ==
    [rid \in DOMAIN m |->
        [fid \in DOMAIN m[rid] |->
            [mid \in DOMAIN m[rid][fid] |-> {x \in m[rid][fid][mid] : TRUE}]]]

\* variant: missing keys are added, orphaned keys are kept
ensureRolesKeys_noDelete(prev, rs) ==
    [rid \in (DOMAIN prev) \cup RoleIdsOf(rs) |->
        IF rid \in DOMAIN prev THEN prev[rid] ELSE EmptyObj]

\* variant: every listed role gets a new empty entry
ensureRolesKeys_reset(prev, rs) == [rid \in RoleIdsOf(rs) |-> EmptyObj]

\* the updater of the "ensure roles keys" effect
ensureRolesKeys(prev, rs) ==
    LET ids == RoleIdsOf(rs)
        added == [rid \in (DOMAIN prev) \cup ids |->
                     IF rid \in DOMAIN prev THEN prev[rid] ELSE EmptyObj]
    IN  [rid \in {k \in DOMAIN added : k \in ids} |-> added[rid]]

\* merge of the old role entry into an existing new role entry
MergeEntry(newEntry, oldEntry) ==
    [fid \in (DOMAIN newEntry) \cup (DOMAIN oldEntry) |->
        IF fid \notin DOMAIN oldEntry THEN newEntry[fid]
        ELSE LET base == IF fid \in DOMAIN newEntry THEN newEntry[fid]
                         ELSE EmptyObj
                 old == oldEntry[fid]
             IN  [mid \in (DOMAIN base) \cup (DOMAIN old) |->
                    IF mid \notin DOMAIN old THEN base[mid]
                    ELSE (IF mid \in DOMAIN base THEN base[mid] ELSE {})
                            \cup old[mid]]]

\* variant: the old entry overwrites an existing new entry
handleRoleBeforeSave_overwrite(prev, draftId, editingId) ==
    IF editingId = -1 \/ draftId = editingId THEN prev
    ELSE LET oldKey == Str(editingId)
             newKey == Str(draftId)
         IN  IF ~Has(prev, oldKey) THEN PutIfAbsent(prev, newKey, EmptyObj)
             ELSE Del(Put(prev, newKey, prev[oldKey]), oldKey)

\* the mapping after handleRoleBeforeSave({draft, editingId})
handleRoleBeforeSave(prev, draftId, editingId) ==
    IF editingId = -1 THEN prev
    ELSE IF draftId = editingId THEN prev
    ELSE LET oldKey == Str(editingId)
             newKey == Str(draftId)
             next == cloneMapping(prev)
         IN  IF oldKey = newKey THEN prev
             ELSE IF ~Has(next, oldKey) THEN PutIfAbsent(next, newKey, EmptyObj)
             ELSE IF Has(next, newKey)
                  THEN Del(Put(next, newKey,
                                MergeEntry(next[newKey], next[oldKey])), oldKey)
                  ELSE Del(Put(next, newKey, next[oldKey]), oldKey)

\* variant: the action is added, never removed
toggle_addOnly(prev, roleId, featureId, mid, permId) ==
    LET rid == Str(roleId)
        fid == Str(featureId)
        n1 == PutIfAbsent(prev, rid, EmptyObj)
        byF == PutIfAbsent(n1[rid], fid, EmptyObj)
        set == IF Has(byF[fid], mid) THEN byF[fid][mid] ELSE {}
    IN  Put(n1, rid, Put(byF, fid, Put(byF[fid], mid, set \cup {Str(permId)})))

\* the mapping after toggle(roleId, featureId, menuId, permId); menuId is
\* already a string here (String(menuId) of a number or of the sentinel)
toggle(prev, roleId, featureId, mid, permId) ==
    LET rid == Str(roleId)
        fid == Str(featureId)
        key == Str(permId)
        n1 == PutIfAbsent(cloneMapping(prev), rid, EmptyObj)
        byF == PutIfAbsent(n1[rid], fid, EmptyObj)
        set == IF Has(byF[fid], mid) THEN byF[fid][mid] ELSE {}
        flipped == IF key \in set THEN set \ {key} ELSE set \cup {key}
    IN  Put(n1, rid, Put(byF, fid, Put(byF[fid], mid, flipped)))

\* variant: the role loses all its features
removeFeatureFromRole_all(prev, roleId, featureId) ==
    LET next == cloneMapping(prev)
        rid == Str(roleId)
    IN  IF Has(next, rid) THEN Put(next, rid, EmptyObj) ELSE next

\* delete next[rid][fid], when the role has an entry
removeFeatureFromRole(prev, roleId, featureId) ==
    LET next == cloneMapping(prev)
        rid == Str(roleId)
        fid == Str(featureId)
    IN  IF Has(next, rid) THEN Put(next, rid, Del(next[rid], fid)) ELSE next

\* variant: a feature left without menus is deleted as well
removeMenuFromFeature_prune(prev, roleId, featureId, mid) ==
    LET next == cloneMapping(prev)
        rid == Str(roleId)
        fid == Str(featureId)
    IN  IF Has(next, rid) /\ Has(next[rid], fid) /\ Has(next[rid][fid], mid)
        THEN IF DOMAIN next[rid][fid] = {mid}
             THEN Put(next, rid, Del(next[rid], fid))
             ELSE Put(next, rid, Put(next[rid], fid, Del(next[rid][fid], mid)))
        ELSE next

\* delete next[rid][fid][mid], when the path exists
removeMenuFromFeature(prev, roleId, featureId, mid) ==
    LET next == cloneMapping(prev)
        rid == Str(roleId)
        fid == Str(featureId)
    IN  IF Has(next, rid) /\ Has(next[rid], fid) /\ Has(next[rid][fid], mid)
        THEN Put(next, rid, Put(next[rid], fid, Del(next[rid][fid], mid)))
        ELSE next

\* variant: the role key is deleted
clearRole_delete(prev, roleId) == Del(cloneMapping(prev), Str(roleId))

\* next[String(roleId)] = {}
clearRole(prev, roleId) == Put(cloneMapping(prev), Str(roleId), EmptyObj)

\* variant: a feature dropped on a role is reset to an empty menu map
handleRoleDrop_reset(prev, roleId, fid) ==
    LET rid == Str(roleId)
        n1 == PutIfAbsent(cloneMapping(prev), rid, EmptyObj)
    IN  Put(n1, rid, Put(n1[rid], fid, EmptyObj))

\* the mapping after a feature is dropped on a role card (fid: the dragged
\* "text/feature-id" string)
handleRoleDrop(prev, roleId, fid) ==
    LET rid == Str(roleId)
        n1 == PutIfAbsent(cloneMapping(prev), rid, EmptyObj)
    IN  Put(n1, rid, PutIfAbsent(n1[rid], fid, EmptyObj))

\* the mapping after a menu is dropped on a feature zone (mid: the dragged
\* "text/menu-id" string)
handleFeatureMenuDrop(prev, roleId, featureId, mid) ==
    LET rid == Str(roleId)
        fid == Str(featureId)
        n1 == PutIfAbsent(cloneMapping(prev), rid, EmptyObj)
        byF == PutIfAbsent(n1[rid], fid, EmptyObj)
    IN  Put(n1, rid, Put(byF, fid, PutIfAbsent(byF[fid], mid, {})))

----------------------------------------------------------------------------
(* Mapping engine of the Package scenario: packageId -> Set of featureId *)

\* variant of ensurePackageKeys that keeps the keys of deleted packages
ensurePackageKeys_noDelete(prev, pkgs) ==
    LET ids == {Str(pkgs[i].id) : i \in DOMAIN pkgs}
    IN  [k \in (DOMAIN prev) \cup ids |->
            IF k \in DOMAIN prev THEN prev[k] ELSE {}]

\* the updater of the "ensure mapping has keys for all packages" effect
ensurePackageKeys(prev, pkgs) ==
    LET ids == {Str(pkgs[i].id) : i \in DOMAIN pkgs}
        added == [k \in (DOMAIN prev) \cup ids |->
                     IF k \in DOMAIN prev THEN prev[k] ELSE {}]
    IN  [k \in {x \in DOMAIN added : x \in ids} |-> added[k]]

\* the updater of the "clean up mapping when features removed" effect
cleanupFeatures(prev, feats) ==
    [pkgId \in DOMAIN prev |->
        {fid \in prev[pkgId] :
            \E i \in DOMAIN feats : Str(feats[i].id) = fid}]

\* cloneMap(map): every Set copied
cloneMap(map) == [k \in DOMAIN map |-> map[k]]

\* variant: the drop is computed from the mapper's internal map (one empty
\* set per package) instead of the value it is given
handlePackageDrop_internal(prev, pkgId, featureId) ==
    LET k == Str(pkgId)
    IN  [x \in (DOMAIN prev) \cup {k} |-> IF x = k THEN {featureId} ELSE {}]

\* the mapping after a feature is dropped on a package (featureId: the
\* dragged "text/feature-id" string)
handlePackageDrop(prev, pkgId, featureId) ==
    LET k == Str(pkgId)
        next == PutIfAbsent(cloneMap(prev), k, {})
    IN  Put(next, k, next[k] \cup {featureId})

\* next[String(pkgId)]?.delete(featureId)
removeMapping(prev, pkgId, featureId) ==
    LET k == Str(pkgId)
        next == cloneMap(prev)
    IN  IF Has(next, k) THEN Put(next, k, next[k] \ {featureId}) ELSE next

\* next[String(pkgId)] = new Set()
clearPackage(prev, pkgId) == Put(cloneMap(prev), Str(pkgId), {})

----------------------------------------------------------------------------
(* The generic CRUD list editor (CrudList).  `items` is the list given by  *)
(* the owner; the editor keeps editingId and draft.                        *)

Entity(id, name) == [id |-> id, name |-> name]

RECURSIVE MaxOf(_)
MaxOf(S) == LET x == CHOOSE y \in S : TRUE
            IN  IF S = {x} THEN x
                ELSE LET m == MaxOf(S \ {x}) IN IF x > m THEN x ELSE m

\* nextId(): max existing id + 1, or 1
nextId(items) ==
    IF Len(items) > 0 THEN MaxOf({items[i].id : i \in DOMAIN items}) + 1 ELSE 1

\* editor closed: editingId === null
CrudClosed == [open |-> FALSE]

CrudEditing(editingId, draft) ==
    [open |-> TRUE, editingId |-> editingId, draft |-> draft]

\* items.find((i) => i.id === id): the first match
FindById(items, id) ==
    items[CHOOSE i \in DOMAIN items :
              items[i].id = id /\ \A j \in 1..(i - 1) : items[j].id # id]

\* the list handed to setItems by save()
CrudSave(items, editingId, draft) ==
    IF editingId = -1 THEN Append(items, draft)
    ELSE [i \in DOMAIN items |->
             IF items[i].id = editingId
             THEN [draft EXCEPT !.id = items[i].id]
             ELSE items[i]]

\* the list handed to setItems by remove(id)
CrudRemove(items, id) == SelectSeq(items, LAMBDA it : it.id # id)

----------------------------------------------------------------------------
(* CSV text.  A text is a sequence of one-character strings.               *)

Whitespace == {" ", "\t", "\r", "\n"}

RECURSIVE Concat(_)
\* the string made of the characters
Concat(cs) == IF cs = <<>> THEN "" ELSE cs[1] \o Concat(Tail(cs))

RECURSIVE TrimLeft(_)
TrimLeft(cs) == IF cs # <<>> /\ cs[1] \in Whitespace THEN TrimLeft(Tail(cs))
                ELSE cs

RECURSIVE TrimRight(_)
TrimRight(cs) ==
    IF cs # <<>> /\ cs[Len(cs)] \in Whitespace
    THEN TrimRight(SubSeq(cs, 1, Len(cs) - 1))
    ELSE cs

\* String.prototype.trim
Trim(cs) == TrimRight(TrimLeft(cs))

\* text.split(/\r?\n/): the text between the line feeds, without the
\* carriage return that precedes a line feed
SplitLines(text) ==
    LET nl == {i \in DOMAIN text : text[i] = "\n"}
        n == Cardinality(nl)
        brk(k) == IF k = 0 THEN 0
                  ELSE IF k = n + 1 THEN Len(text) + 1
                  ELSE CHOOSE b \in nl : Cardinality({x \in nl : x < b}) = k - 1
        line(k) == LET a == brk(k - 1) + 1
                       b == brk(k) - 1
                       e == IF k <= n /\ b >= a /\ text[b] = "\r"
                            THEN b - 1 ELSE b
                   IN  SubSeq(text, a, e)
    IN  [k \in 1..(n + 1) |-> line(k)]

\* lines.filter((l) => l.trim())
NonBlank(lines) == SelectSeq(lines, LAMBDA l : Trim(l) # <<>>)

RECURSIVE ParseFrom(_, _, _, _)
ParseFrom(line, i, current, inQuotes) ==
    IF i > Len(line) THEN <<current>>
    ELSE IF line[i] = "\""
         THEN IF inQuotes /\ i < Len(line) /\ line[i + 1] = "\""
              THEN ParseFrom(line, i + 2, Append(current, "\""), inQuotes)
              ELSE ParseFrom(line, i + 1, current, ~inQuotes)
    ELSE IF line[i] = "," /\ ~inQuotes
         THEN <<current>> \o ParseFrom(line, i + 1, <<>>, inQuotes)
    ELSE ParseFrom(line, i + 1, Append(current, line[i]), inQuotes)

\* parseLine(line): the cells of one line, quotes removed, not trimmed
parseLine(line) == ParseFrom(line, 1, <<>>, FALSE)

RECURSIVE JoinWith(_, _)
\* parts.join(sep), on character sequences
JoinWith(parts, sep) ==
    IF parts = <<>> THEN <<>>
    ELSE IF Len(parts) = 1 THEN parts[1]
    ELSE parts[1] \o sep \o JoinWith(Tail(parts), sep)

RECURSIVE DoubleQuotes(_)
\* s.replace(/"/g, '""')
DoubleQuotes(cs) ==
    IF cs = <<>> THEN <<>>
    ELSE (IF cs[1] = "\"" THEN <<"\"", "\"">> ELSE <<cs[1]>>)
             \o DoubleQuotes(Tail(cs))

\* variant of esc: embedded double quotes are not doubled
esc_plain(cs) == <<"\"">> \o cs \o <<"\"">>

\* esc(s): the field in double quotes, embedded quotes doubled
esc(cs) == <<"\"">> \o DoubleQuotes(cs) \o <<"\"">>

\* one CSV line of quoted fields
CsvLine(cells) == JoinWith([i \in DOMAIN cells |-> esc(cells[i])], <<",">>)

\* a CSV text: the lines joined by "\n"
CsvText(lines) == JoinWith(lines, <<"\n">>)

----------------------------------------------------------------------------
(* Bounded input universes of the pure operations *)

\* number of distinct action ids in the generated mappings
NActs == 2

HRoleKeys == {"1", "2"}
HFeatKeys == {"2", "4"}
HMenuKeys == {"3"}
HActKeys == {Str(4 + i) : i \in 1..NActs}

FnsOver(keys, vals) == UNION {[ks -> vals] : ks \in SUBSET keys}

HMenuMaps == FnsOver(HMenuKeys, SUBSET HActKeys)
HFeatMaps == FnsOver(HFeatKeys, HMenuMaps)
\* every RoleFeatureMenuActionMap over the keys above
HMaps == FnsOver(HRoleKeys, HFeatMaps)

\* persisted arrays: empty, numbers and strings mixed, a repeated element,
\* a null element
RawArrays == {JArr(<<>>), JArr(<<JNum(5), JStr("6")>>),
              JArr(<<JStr("5"), JStr("5")>>), JArr(<<JNull, JNum(6)>>)}
\* values found under a menu key: an array, or something malformed
RawMenuVals == RawArrays \cup {JNull, JStr("x")}
RawMenuObjs == {JObj(o) : o \in FnsOver(HMenuKeys, RawMenuVals)}
\* values found under a feature key: legacy array, nested object, malformed
RawFeatVals == RawArrays \cup RawMenuObjs \cup {JNull, JNum(7)}
RawFeatObjs == {JObj(o) : o \in FnsOver(HFeatKeys, RawFeatVals)}
\* values found under a role key
RawRoleVals == RawFeatObjs \cup {JNull, JArr(<<JArr(<<JNum(5)>>), JNum(1)>>)}
\* whole documents
RawDocs == {JObj(o) : o \in FnsOver(HRoleKeys, RawRoleVals)}
              \cup {JNull, JNum(1), JStr("x"), JBool(TRUE),
                    JArr(<<JObj(EmptyObj)>>)}

NoArgs == [op |-> "none"]

----------------------------------------------------------------------------
(* Harness of the persistence codec: encode a mapping and decode it again, *)
(* or decode a given persisted document.  JSON.stringify followed by       *)
(* JSON.parse returns the same tree of objects, arrays and strings.        *)

\* the Role admin is not mounted
RoleIdle ==
    /\ roles = <<>>
    /\ perms = <<>>
    /\ menus = <<>>
    /\ mapping = EmptyObj
    /\ stored = [kind |-> "none"]
    /\ crud = [open |-> FALSE]
    /\ reading = [busy |-> FALSE]
    /\ rolesDirty = FALSE
    /\ persistDirty = FALSE
    /\ lastIdEdit = [kind |-> "none"]

\* the Package admin is not mounted
PkgIdle ==
    /\ packages = <<>>
    /\ pkgFeatures = <<>>
    /\ pkgMapping = EmptyObj
    /\ pkgStored = [kind |-> "none"]
    /\ pkgReading = [busy |-> FALSE]
    /\ packagesDirty = FALSE
    /\ featuresDirty = FALSE
    /\ pkgPersistDirty = FALSE

CodecInit ==
    /\ RoleIdle
    /\ PkgIdle
    /\ hArgs = NoArgs
    /\ hOut = EmptyObj
    /\ \/ hPc = "map" /\ hMap \in HMaps /\ hRaw = JNull
       \/ hPc = "raw" /\ hRaw \in RawDocs /\ hMap = EmptyObj

Encode ==
    /\ hPc = "map"
    /\ hRaw' = toPersistRFMA(hMap)
    /\ hPc' = "encoded"
    /\ UNCHANGED <<hMap, hArgs, hOut>>
    /\ UNCHANGED <<rvars, pvars>>

DecodeStored ==
    /\ hPc = "encoded"
    /\ hOut' = fromPersistRFMA(hRaw)
    /\ hPc' = "roundtrip"
    /\ UNCHANGED <<hMap, hArgs, hRaw>>
    /\ UNCHANGED <<rvars, pvars>>

DecodeRaw ==
    /\ hPc = "raw"
    /\ hOut' = fromPersistRFMA(hRaw)
    /\ hPc' = "decoded"
    /\ UNCHANGED <<hMap, hArgs, hRaw>>
    /\ UNCHANGED <<rvars, pvars>>

CodecNext == Encode \/ DecodeStored \/ DecodeRaw

SpecCodec == CodecInit /\ [][CodecNext]_vars

----------------------------------------------------------------------------
(* Properties of the persistence codec *)

\* the strings of a persisted array's elements
StringsOf(arr) == {JsString(arr.a[i]) : i \in DOMAIN arr.a}

\* C2: decode(encode(m)) has the same role keys, feature keys, menu keys
\* and the same action-set contents as m.
C2_RoundTrip ==
    hPc = "roundtrip" =>
        /\ DOMAIN hOut = DOMAIN hMap
        /\ \A rid \in DOMAIN hMap :
            /\ DOMAIN hOut[rid] = DOMAIN hMap[rid]
            /\ \A fid \in DOMAIN hMap[rid] :
                /\ DOMAIN hOut[rid][fid] = DOMAIN hMap[rid][fid]
                /\ \A mid \in DOMAIN hMap[rid][fid] :
                    hOut[rid][fid][mid] = hMap[rid][fid][mid]

\* a round trip of a mapping with a role without features, a feature without
\* menus and a menu with an empty action set
C2_Witness ==
    /\ hPc = "roundtrip"
    /\ \E rid \in DOMAIN hMap : DOMAIN hMap[rid] = {}
    /\ \E rid \in DOMAIN hMap : \E fid \in DOMAIN hMap[rid] :
           DOMAIN hMap[rid][fid] = {}
    /\ \E rid \in DOMAIN hMap : \E fid \in DOMAIN hMap[rid] :
           \E mid \in DOMAIN hMap[rid][fid] : hMap[rid][fid][mid] = {}

\* C8: a persisted array at a (role, feature) position is decoded to exactly
\* one menu key, the sentinel "-1", holding the strings of its elements.
C8_LegacyMigration ==
    (hPc = "decoded" /\ hRaw.t = "obj") =>
        \A rid \in DOMAIN hRaw.o : hRaw.o[rid].t = "obj" =>
            \A fid \in DOMAIN hRaw.o[rid].o :
                LET v == hRaw.o[rid].o[fid]
                IN  v.t = "arr" =>
                        /\ rid \in DOMAIN hOut
                        /\ fid \in DOMAIN hOut[rid]
                        /\ DOMAIN hOut[rid][fid] = {"-1"}
                        /\ hOut[rid][fid]["-1"] = StringsOf(v)

\* the legacy document {"1": {"2": [5, "6"]}} has been decoded
C8_Witness ==
    /\ hPc = "decoded"
    /\ hRaw = JObj([r \in {"1"} |->
                 JObj([f \in {"2"} |-> JArr(<<JNum(5), JStr("6")>>)])])
    /\ hOut["1"]["2"]["-1"] = {"5", "6"}

\* what one feature entry decodes to, from that entry alone
EntryAlone(v) ==
    IF v.t = "arr" THEN [mid \in {"-1"} |-> StringsOf(v)]
    ELSE [mid \in {m \in DOMAIN v.o : v.o[m].t = "arr"} |-> StringsOf(v.o[mid])]

\* C9: every (role, feature) entry is decoded according to its own shape,
\* whatever the shapes of the other entries of the document.
C9_PerEntryShape ==
    (hPc = "decoded" /\ hRaw.t = "obj") =>
        \A rid \in DOMAIN hRaw.o : hRaw.o[rid].t = "obj" =>
            \A fid \in DOMAIN hRaw.o[rid].o :
                LET v == hRaw.o[rid].o[fid]
                IN  v.t \in {"arr", "obj"} =>
                        /\ rid \in DOMAIN hOut
                        /\ fid \in DOMAIN hOut[rid]
                        /\ hOut[rid][fid] = EntryAlone(v)

\* a decoded document that mixes a legacy entry and a nested entry
C9_Witness ==
    /\ hPc = "decoded"
    /\ hRaw.t = "obj"
    /\ \E r1, r2 \in DOMAIN hRaw.o :
        /\ hRaw.o[r1].t = "obj"
        /\ hRaw.o[r2].t = "obj"
        /\ \E f1 \in DOMAIN hRaw.o[r1].o, f2 \in DOMAIN hRaw.o[r2].o :
            /\ hRaw.o[r1].o[f1].t = "arr"
            /\ hRaw.o[r2].o[f2].t = "obj"
            /\ \E m \in DOMAIN hRaw.o[r2].o[f2].o :
                   hRaw.o[r2].o[f2].o[m].t = "arr"
            /\ "-1" \in DOMAIN hOut[r1][f1]
            /\ hOut[r2][f2] # EmptyObj

\* C10: a top-level input that is null or not an object decodes to the empty
\* map; a malformed role, feature or menu value is dropped and every
\* well-formed sibling is still decoded.
C10_DefensiveDecode ==
    /\ (hPc = "decoded" /\ hRaw.t \in {"null", "num", "str", "bool"}) =>
           hOut = EmptyObj
    /\ (hPc = "decoded" /\ hRaw.t = "obj") =>
        /\ DOMAIN hOut = DOMAIN hRaw.o
        /\ \A rid \in DOMAIN hRaw.o :
            LET rv == hRaw.o[rid]
            IN  /\ rv.t \notin {"arr", "obj"} => hOut[rid] = EmptyObj
                /\ rv.t = "obj" =>
                    /\ DOMAIN hOut[rid] =
                           {fid \in DOMAIN rv.o : rv.o[fid].t \in {"arr", "obj"}}
                    /\ \A fid \in DOMAIN hOut[rid] :
                           rv.o[fid].t = "obj" =>
                               DOMAIN hOut[rid][fid] =
                                   {m \in DOMAIN rv.o[fid].o :
                                       rv.o[fid].o[m].t = "arr"}

\* a decoded document with a malformed feature value, a malformed menu value
\* and a well-formed sibling entry that kept its actions
C10_Witness ==
    /\ hPc = "decoded"
    /\ hRaw.t = "obj"
    /\ \E rid \in DOMAIN hRaw.o :
        /\ hRaw.o[rid].t = "obj"
        /\ \E f1, f2 \in DOMAIN hRaw.o[rid].o :
            /\ hRaw.o[rid].o[f1].t \notin {"arr", "obj"}
            /\ f1 \notin DOMAIN hOut[rid]
            /\ f2 \in DOMAIN hOut[rid]
            /\ \E m \in DOMAIN hOut[rid][f2] : hOut[rid][f2][m] # {}
    /\ \E rid \in DOMAIN hRaw.o : hRaw.o[rid].t = "null"

----------------------------------------------------------------------------
(* Harness of the mapping engine: one pure operation applied to a mapping  *)
(* drawn from the bounded universe.                                        *)

\* role ids the operations are applied with (3 is not a key of any input)
HRoleIds == {1, 2, 3}
HFeatIds == {2, 4}
\* menu keys the operations are applied with ("-1" is in no input)
HMenuArgs == {"3", "-1"}
HActIds == {4 + i : i \in 1..NActs}

\* entity lists the reconciliation passes are applied with
HEntityLists ==
    {<<>>} \cup {<<Entity(a, "")>> : a \in HRoleIds}
           \cup {<<Entity(a, ""), Entity(b, "")>> : a \in HRoleIds, b \in HRoleIds}

\* every PackageFeatureMap with keys "1", "2" and feature ids "2", "4"
HPkgMaps == FnsOver(HRoleKeys, SUBSET HFeatKeys)

EngineInit ==
    /\ RoleIdle
    /\ PkgIdle
    /\ hArgs = NoArgs
    /\ hOut = EmptyObj
    /\ hRaw = JNull
    /\ \/ hPc = "init" /\ hMap \in HMaps
       \/ hPc = "pinit" /\ hMap \in HPkgMaps

ApplyToggle ==
    /\ hPc = "init"
    /\ \E r \in HRoleIds, f \in HFeatIds, m \in HMenuArgs, p \in HActIds :
        /\ hOut' = toggle(hMap, r, f, m, p)
        /\ hArgs' = [op |-> "toggle", r |-> r, f |-> f, m |-> m, p |-> p]
    /\ hPc' = "toggle1"
    /\ UNCHANGED <<hMap, hRaw>>
    /\ UNCHANGED <<rvars, pvars>>

ApplyToggleAgain ==
    /\ hPc = "toggle1"
    /\ hOut' = toggle(hOut, hArgs.r, hArgs.f, hArgs.m, hArgs.p)
    /\ hPc' = "toggle2"
    /\ UNCHANGED <<hMap, hRaw, hArgs>>
    /\ UNCHANGED <<rvars, pvars>>

ApplyRekey ==
    /\ hPc = "init"
    /\ \E old \in HRoleIds \cup {-1}, new \in HRoleIds :
        /\ hOut' = handleRoleBeforeSave(hMap, new, old)
        /\ hArgs' = [op |-> "rekey", old |-> old, new |-> new]
    /\ hPc' = "rekey"
    /\ UNCHANGED <<hMap, hRaw>>
    /\ UNCHANGED <<rvars, pvars>>

ApplyEnsureRoles ==
    /\ hPc = "init"
    /\ \E rs \in HEntityLists :
        /\ hOut' = ensureRolesKeys(hMap, rs)
        /\ hArgs' = [op |-> "ensure", list |-> rs]
    /\ hPc' = "ensureRoles"
    /\ UNCHANGED <<hMap, hRaw>>
    /\ UNCHANGED <<rvars, pvars>>

ApplyEnsurePackages ==
    /\ hPc = "pinit"
    /\ \E pkgs \in HEntityLists :
        /\ hOut' = ensurePackageKeys(hMap, pkgs)
        /\ hArgs' = [op |-> "ensure", list |-> pkgs]
    /\ hPc' = "ensurePackages"
    /\ UNCHANGED <<hMap, hRaw>>
    /\ UNCHANGED <<rvars, pvars>>

ApplyRemoveFeature ==
    /\ hPc = "init"
    /\ \E r \in HRoleIds, f \in HFeatIds :
        /\ hOut' = removeFeatureFromRole(hMap, r, f)
        /\ hArgs' = [op |-> "removeFeature", r |-> r, f |-> f]
    /\ hPc' = "removeFeature"
    /\ UNCHANGED <<hMap, hRaw>>
    /\ UNCHANGED <<rvars, pvars>>

ApplyRemoveMenu ==
    /\ hPc = "init"
    /\ \E r \in HRoleIds, f \in HFeatIds, m \in HMenuArgs :
        /\ hOut' = removeMenuFromFeature(hMap, r, f, m)
        /\ hArgs' = [op |-> "removeMenu", r |-> r, f |-> f, m |-> m]
    /\ hPc' = "removeMenu"
    /\ UNCHANGED <<hMap, hRaw>>
    /\ UNCHANGED <<rvars, pvars>>

ApplyClearRole ==
    /\ hPc = "init"
    /\ \E r \in HRoleIds :
        /\ hOut' = clearRole(hMap, r)
        /\ hArgs' = [op |-> "clearRole", r |-> r]
    /\ hPc' = "clearRole"
    /\ UNCHANGED <<hMap, hRaw>>
    /\ UNCHANGED <<rvars, pvars>>

ApplyRoleDrop ==
    /\ hPc = "init"
    /\ \E r \in HRoleIds, f \in HFeatIds :
        /\ hOut' = handleRoleDrop(hMap, r, Str(f))
        /\ hArgs' = [op |-> "roleDrop", r |-> r, f |-> f]
    /\ hPc' = "roleDrop"
    /\ UNCHANGED <<hMap, hRaw>>
    /\ UNCHANGED <<rvars, pvars>>

ApplyFeatureMenuDrop ==
    /\ hPc = "init"
    /\ \E r \in HRoleIds, f \in HFeatIds, m \in HMenuArgs :
        /\ hOut' = handleFeatureMenuDrop(hMap, r, f, m)
        /\ hArgs' = [op |-> "menuDrop", r |-> r, f |-> f, m |-> m]
    /\ hPc' = "menuDrop"
    /\ UNCHANGED <<hMap, hRaw>>
    /\ UNCHANGED <<rvars, pvars>>

ApplyClearPackage ==
    /\ hPc = "pinit"
    /\ \E k \in HRoleIds :
        /\ hOut' = clearPackage(hMap, k)
        /\ hArgs' = [op |-> "clearPackage", r |-> k]
    /\ hPc' = "clearPackage"
    /\ UNCHANGED <<hMap, hRaw>>
    /\ UNCHANGED <<rvars, pvars>>

EngineNext ==
    \/ ApplyToggle
    \/ ApplyToggleAgain
    \/ ApplyRekey
    \/ ApplyEnsureRoles
    \/ ApplyEnsurePackages
    \/ ApplyRemoveFeature
    \/ ApplyRemoveMenu
    \/ ApplyClearRole
    \/ ApplyRoleDrop
    \/ ApplyFeatureMenuDrop
    \/ ApplyClearPackage

SpecEngine == EngineInit /\ [][EngineNext]_vars

----------------------------------------------------------------------------
(* Properties of the mapping engine *)

\* the (role, feature, menu, action) links of a mapping
Quads(m) ==
    UNION {UNION {UNION {{<<rid, fid, mid, a>> : a \in m[rid][fid][mid]} :
        mid \in DOMAIN m[rid][fid]} : fid \in DOMAIN m[rid]} : rid \in DOMAIN m}

\* the keys of a mapping: its role keys, (role, feature) and (role, feature,
\* menu) paths
PathKeys(m) ==
    {<<rid>> : rid \in DOMAIN m}
    \cup UNION {{<<rid, fid>> : fid \in DOMAIN m[rid]} : rid \in DOMAIN m}
    \cup UNION {UNION {{<<rid, fid, mid>> : mid \in DOMAIN m[rid][fid]} :
            fid \in DOMAIN m[rid]} : rid \in DOMAIN m}

HPath == <<Str(hArgs.r), Str(hArgs.f), hArgs.m>>
HPathInInput == <<Str(hArgs.r), Str(hArgs.f), hArgs.m>> \in PathKeys(hMap)

\* C3 as stated: toggling twice yields m, whether or not the keys of the
\* path exist in m.
C3_ToggleTwiceEqual == hPc = "toggle2" => hOut = hMap

\* C3 amended: toggling twice keeps every action link and yields m when the
\* keys of the path exist in m; otherwise it yields m plus the missing keys
\* of the path, the menu holding an empty action set.
C3_ToggleTwice ==
    hPc = "toggle2" =>
        /\ Quads(hOut) = Quads(hMap)
        /\ PathKeys(hOut) =
               PathKeys(hMap) \cup {<<HPath[1]>>, <<HPath[1], HPath[2]>>, HPath}
        /\ HPathInInput => hOut = hMap

\* an action of an existing menu has been toggled off and on again
C3_Witness ==
    /\ hPc = "toggle2"
    /\ HPathInInput
    /\ Str(hArgs.p) \in hMap[HPath[1]][HPath[2]][HPath[3]]
    /\ Cardinality(Quads(hMap)) > 1

\* C4: rekey of an existing role key old to new # old.  If new is no key the
\* entry of old moves to new; if new is a key its entry becomes, per feature
\* and per menu, the union of both entries.  old is absent afterwards and
\* every other role entry is unchanged.
C4_Rekey ==
    (/\ hPc = "rekey"
     /\ hArgs.old # -1
     /\ hArgs.old # hArgs.new
     /\ Str(hArgs.old) \in DOMAIN hMap) =>
        LET old == Str(hArgs.old)
            new == Str(hArgs.new)
            A == hMap[old]
            B == IF new \in DOMAIN hMap THEN hMap[new] ELSE EmptyObj
            menusOf(e, fid) == IF fid \in DOMAIN e THEN DOMAIN e[fid] ELSE {}
            setOf(e, fid, mid) ==
                IF mid \in menusOf(e, fid) THEN e[fid][mid] ELSE {}
        IN  /\ DOMAIN hOut = ((DOMAIN hMap) \ {old}) \cup {new}
            /\ \A k \in (DOMAIN hOut) \ {new} : hOut[k] = hMap[k]
            /\ new \notin DOMAIN hMap => hOut[new] = A
            /\ DOMAIN hOut[new] = (DOMAIN A) \cup (DOMAIN B)
            /\ \A fid \in DOMAIN hOut[new] :
                /\ DOMAIN hOut[new][fid] = menusOf(A, fid) \cup menusOf(B, fid)
                /\ \A mid \in DOMAIN hOut[new][fid] :
                       hOut[new][fid][mid] =
                           setOf(A, fid, mid) \cup setOf(B, fid, mid)

\* a rekey onto an existing key where both entries hold different actions
\* under the same feature and menu
C4_Witness ==
    /\ hPc = "rekey"
    /\ hArgs.old = 1
    /\ hArgs.new = 2
    /\ {"1", "2"} \subseteq DOMAIN hMap
    /\ \E fid \in (DOMAIN hMap["1"]) \cap (DOMAIN hMap["2"]) :
        \E mid \in (DOMAIN hMap["1"][fid]) \cap (DOMAIN hMap["2"][fid]) :
            /\ hMap["1"][fid][mid] # {}
            /\ hMap["2"][fid][mid] # {}
            /\ hMap["1"][fid][mid] # hMap["2"][fid][mid]
            /\ hOut["2"][fid][mid] = hMap["1"][fid][mid] \cup hMap["2"][fid][mid]

\* C6: the reconciliation pass yields exactly the key set of the entity ids;
\* keys not in the id list are removed even with data, ids without a key get
\* an empty structure (empty map for roles, empty set for packages).
C6_Reconcile ==
    /\ hPc = "ensureRoles" =>
        /\ DOMAIN hOut = {Str(hArgs.list[i].id) : i \in DOMAIN hArgs.list}
        /\ \A k \in (DOMAIN hOut) \ (DOMAIN hMap) : hOut[k] = EmptyObj
    /\ hPc = "ensurePackages" =>
        /\ DOMAIN hOut = {Str(hArgs.list[i].id) : i \in DOMAIN hArgs.list}
        /\ \A k \in (DOMAIN hOut) \ (DOMAIN hMap) : hOut[k] = {}

\* a pass that dropped a role key holding actions and added a missing one
C6_Witness ==
    /\ hPc = "ensureRoles"
    /\ \E k \in (DOMAIN hMap) \ (DOMAIN hOut) :
           \E q \in Quads(hMap) : q[1] = k
    /\ (DOMAIN hOut) \ (DOMAIN hMap) # {}

----------------------------------------------------------------------------
(* CSV import of the Role scenario *)

\* the trimmed cell of a parsed line, as a string ("" when the column is
\* missing: cols[i]?.trim() is then undefined, which is falsy as well)
Cell(cols, i) == IF i <= Len(cols) THEN Concat(Trim(cols[i])) ELSE ""

RECURSIVE ImportRows_stop(_, _, _)
\* a loop that gives up at the first bad row (break where the code continues)
ImportRows_stop(lines, i, acc) ==
    IF i > Len(lines) THEN acc
    ELSE LET cols == parseLine(lines[i])
             roleId == Cell(cols, 1)
             featureId == Cell(cols, 3)
             menuId == Cell(cols, 5)
             permId == Cell(cols, 7)
         IN  IF Len(cols) < 7 THEN acc
             ELSE IF roleId = "" \/ featureId = "" \/ menuId = "" \/ permId = ""
                  THEN acc
             ELSE LET a1 == PutIfAbsent(acc, roleId, EmptyObj)
                      byF == PutIfAbsent(a1[roleId], featureId, EmptyObj)
                      byM == PutIfAbsent(byF[featureId], menuId, {})
                      set == byM[menuId] \cup {permId}
                  IN  ImportRows_stop(lines, i + 1,
                          Put(a1, roleId,
                              Put(byF, featureId, Put(byM, menuId, set))))

RECURSIVE ImportRows(_, _, _)
\* the loop over the data lines, building newMapping
ImportRows(lines, i, acc) ==
    IF i > Len(lines) THEN acc
    ELSE LET cols == parseLine(lines[i])
             roleId == Cell(cols, 1)
             featureId == Cell(cols, 3)
             menuId == Cell(cols, 5)
             permId == Cell(cols, 7)
         IN  IF Len(cols) < 7 THEN ImportRows(lines, i + 1, acc)
             ELSE IF roleId = "" \/ featureId = "" \/ menuId = "" \/ permId = ""
                  THEN ImportRows(lines, i + 1, acc)
             ELSE LET a1 == PutIfAbsent(acc, roleId, EmptyObj)
                      byF == PutIfAbsent(a1[roleId], featureId, EmptyObj)
                      byM == PutIfAbsent(byF[featureId], menuId, {})
                      set == byM[menuId] \cup {permId}
                  IN  ImportRows(lines, i + 1,
                          Put(a1, roleId,
                              Put(byF, featureId, Put(byM, menuId, set))))

\* what reader.onload computes from the text: whether a mapping is
\* committed, that mapping, and the row count of the success notice
importCSV(text) ==
    LET lines == NonBlank(SplitLines(text))
    IN  IF Len(lines) < 2
        THEN [ok |-> FALSE, mapping |-> EmptyObj, count |-> 0]
        ELSE LET data == Tail(lines)
             IN  [ok |-> TRUE,
                  mapping |-> ImportRows(data, 1, EmptyObj),
                  count |-> Len(data) - 1]

----------------------------------------------------------------------------
(* The Role admin as a state machine.  Event handlers run to completion;   *)
(* the effects of a commit run before the next event is handled.           *)

\* longest Role list explored
MaxRoles == 2

\* largest role id explored
MaxRoleId == 3

\* ids typed into the ID field of the Roles editor
RoleIdInputs == 1..MaxRoleId

\* defaultRoles
defaultRoles == <<Entity(1, "Admin"), Entity(2, "User")>>
\* the seeded feature, menu and action lists (data files of the repository)
defaultFeatures == <<Entity(1, "Dashboard")>>
defaultMenus == <<Entity(1, "Home")>>
defaultPermActions == <<Entity(1, "View")>>
\* the Feature list of the Role admin has no setter
features == defaultFeatures

createEmptyRole(id) == Entity(id, "")

IdsOf(items) == {items[i].id : i \in DOMAIN items}

NoFile == [busy |-> FALSE]
NoIdEdit == [kind |-> "none"]
NoItem == [kind |-> "none"]
\* an item that JSON.parse rejects
BadItem == [kind |-> "text"]
JsonItem(v) == [kind |-> "json", v |-> v]

Chars1 == <<"1">>
Chars3 == <<"3">>
CsvHeader == <<"h">>
\* a data row of a role-permission file: the ids in columns 0, 2, 4, 6
RoleRow(r, f, m, p) == <<r, <<>>, f, <<>>, m, <<>>, p>>
\* the text of the file with these data rows
RoleCsvFile(rows) ==
    CsvText(<<CsvHeader>> \o [i \in DOMAIN rows |-> CsvLine(rows[i])])
\* the data rows of the files offered to the import: none; a row for role
\* 3, a row of 5 columns and a row for role 1
CsvFileRows ==
    {<<>>,
     <<RoleRow(Chars3, Chars1, Chars1, Chars1),
       <<Chars1, <<>>, Chars1, <<>>, Chars1>>,
       RoleRow(Chars1, Chars1, Chars1, Chars1)>>}
\* the CSV texts offered to the import
CsvFiles == {RoleCsvFile(rows) : rows \in CsvFileRows}

\* what localStorage holds when the admin is mounted
InitialItems ==
    {NoItem, BadItem,
     JsonItem(JObj([r \in {"1", "3"} |->
         JObj([f \in {"1"} |-> JObj([m \in {"1"} |-> JArr(<<JStr("1")>>)])])]))}

\* the initial mapping: decoded from the stored item, else one empty entry
\* per role
initialMapping(item, rs) ==
    IF item.kind = "json" THEN fromPersistRFMA(item.v)
    ELSE [rid \in RoleIdsOf(rs) |-> EmptyObj]

\* no effect is due
Quiet == ~rolesDirty /\ ~persistDirty

RoleInit ==
    /\ roles = defaultRoles
    /\ perms = defaultPermActions
    /\ menus = defaultMenus
    /\ stored \in InitialItems
    /\ mapping = initialMapping(stored, defaultRoles)
    /\ crud = CrudClosed
    /\ reading = NoFile
    /\ rolesDirty = TRUE
    /\ persistDirty = TRUE
    /\ lastIdEdit = NoIdEdit
    /\ PkgIdle
    /\ hPc = "off" /\ hMap = EmptyObj /\ hRaw = JNull
    /\ hArgs = NoArgs /\ hOut = EmptyObj

\* variant: the persist effect does not run again for the mapping that the
\* "ensure roles keys" effect commits
FlushEffects_once ==
    /\ rolesDirty \/ persistDirty
    /\ mapping' = IF rolesDirty THEN ensureRolesKeys(mapping, roles) ELSE mapping
    /\ stored' = IF persistDirty THEN JsonItem(toPersistRFMA(mapping)) ELSE stored
    /\ rolesDirty' = FALSE
    /\ persistDirty' = FALSE
    /\ UNCHANGED <<roles, perms, menus, crud, reading, lastIdEdit, hvars, pvars>>

\* variant: the "ensure roles keys" effect also depends on the mapping it
\* commits, so it is due again after every run
FlushEffects_again ==
    /\ rolesDirty \/ persistDirty
    /\ mapping' = IF rolesDirty THEN ensureRolesKeys(mapping, roles) ELSE mapping
    /\ stored' = IF persistDirty THEN JsonItem(toPersistRFMA(mapping)) ELSE stored
    /\ rolesDirty' = rolesDirty
    /\ persistDirty' = rolesDirty
    /\ UNCHANGED <<roles, perms, menus, crud, reading, lastIdEdit, hvars, pvars>>

\* the effects of one commit: "ensure roles keys" (deps [roles]) queues an
\* update of the mapping, "persist" (deps [mapping, roles, perms]) writes
\* the mapping of the commit it runs in
FlushEffects ==
    /\ rolesDirty \/ persistDirty
    /\ mapping' = IF rolesDirty THEN ensureRolesKeys(mapping, roles) ELSE mapping
    /\ stored' = IF persistDirty THEN JsonItem(toPersistRFMA(mapping)) ELSE stored
    /\ rolesDirty' = FALSE
    /\ persistDirty' = rolesDirty
    /\ UNCHANGED <<roles, perms, menus, crud, reading, lastIdEdit, hvars, pvars>>

\* a commit that replaces the mapping
SetMapping(next) ==
    /\ mapping' = next
    /\ persistDirty' = TRUE
    /\ lastIdEdit' = NoIdEdit
    /\ UNCHANGED <<roles, perms, menus, stored, crud, reading, rolesDirty, hvars, pvars>>

\* CrudList (Roles): Add button, shown while no item is edited
RoleStartAdd ==
    /\ Quiet
    /\ ~crud.open
    /\ Len(roles) < MaxRoles
    /\ crud' = CrudEditing(-1, createEmptyRole(nextId(roles)))
    /\ lastIdEdit' = NoIdEdit
    /\ UNCHANGED <<roles, perms, menus, mapping, stored, reading, rolesDirty,
                   persistDirty, hvars, pvars>>

\* CrudList (Roles): Edit button of an item
RoleStartEdit ==
    /\ Quiet
    /\ \E id \in IdsOf(roles) : crud' = CrudEditing(id, FindById(roles, id))
    /\ lastIdEdit' = NoIdEdit
    /\ UNCHANGED <<roles, perms, menus, mapping, stored, reading, rolesDirty,
                   persistDirty, hvars, pvars>>

\* CrudList (Roles): the ID field of the form is changed
RoleEditId ==
    /\ Quiet
    /\ crud.open
    /\ \E v \in RoleIdInputs :
        /\ v # crud.draft.id
        /\ crud' = [crud EXCEPT !.draft.id = v]
    /\ lastIdEdit' = NoIdEdit
    /\ UNCHANGED <<roles, perms, menus, mapping, stored, reading, rolesDirty,
                   persistDirty, hvars, pvars>>

\* CrudList (Roles): Save button
RoleSave ==
    /\ Quiet
    /\ crud.open
    /\ crud.draft.id <= MaxRoleId
    /\ roles' = CrudSave(roles, crud.editingId, crud.draft)
    /\ crud' = CrudClosed
    /\ rolesDirty' = TRUE
    /\ persistDirty' = TRUE
    /\ lastIdEdit' =
           IF crud.editingId # -1 /\ crud.draft.id # crud.editingId
           THEN [kind |-> "edit", from |-> crud.editingId, to |-> crud.draft.id,
                 free |-> crud.draft.id \notin IdsOf(roles),
                 had |-> Has(mapping, Str(crud.editingId)),
                 entry |-> IF Has(mapping, Str(crud.editingId))
                           THEN mapping[Str(crud.editingId)] ELSE EmptyObj]
           ELSE NoIdEdit
    /\ UNCHANGED <<perms, menus, mapping, stored, reading, hvars, pvars>>

\* CrudList (Roles): Cancel button
RoleCancel ==
    /\ Quiet
    /\ crud.open
    /\ crud' = CrudClosed
    /\ lastIdEdit' = NoIdEdit
    /\ UNCHANGED <<roles, perms, menus, mapping, stored, reading, rolesDirty,
                   persistDirty, hvars, pvars>>

\* CrudList (Roles): Delete button of an item
RoleRemove ==
    /\ Quiet
    /\ \E id \in IdsOf(roles) :
        /\ roles' = CrudRemove(roles, id)
        /\ crud' = IF crud.open /\ crud.editingId = id THEN CrudClosed ELSE crud
    /\ rolesDirty' = TRUE
    /\ persistDirty' = TRUE
    /\ lastIdEdit' = NoIdEdit
    /\ UNCHANGED <<perms, menus, mapping, stored, reading, hvars, pvars>>

\* the feature rows shown in the card of role r: the feature keys of its
\* entry that name a feature of the list, as numbers (Number(fid))
ShownFeatures(r) ==
    IF Has(mapping, Str(r))
    THEN {f \in IdsOf(features) : Str(f) \in DOMAIN mapping[Str(r)]}
    ELSE {}

\* the menu blocks shown in a feature row
ShownMenus(r, f) == DOMAIN mapping[Str(r)][Str(f)]

\* a checkbox of an action in a menu block
Toggle ==
    /\ Quiet
    /\ \E r \in IdsOf(roles) : \E f \in ShownFeatures(r) :
        \E mid \in ShownMenus(r, f) : \E p \in IdsOf(perms) :
            SetMapping(toggle(mapping, r, f, mid, p))

\* "remove feature" button of a feature row
RemoveFeature ==
    /\ Quiet
    /\ \E r \in IdsOf(roles) : \E f \in ShownFeatures(r) :
        SetMapping(removeFeatureFromRole(mapping, r, f))

\* "remove menu" button of a menu block
RemoveMenu ==
    /\ Quiet
    /\ \E r \in IdsOf(roles) : \E f \in ShownFeatures(r) :
        \E mid \in ShownMenus(r, f) :
            SetMapping(removeMenuFromFeature(mapping, r, f, mid))

\* "clear" button of a role card
ClearRole ==
    /\ Quiet
    /\ \E r \in IdsOf(roles) : SetMapping(clearRole(mapping, r))

\* a feature of the palette is dropped on a role card
RoleDrop ==
    /\ Quiet
    /\ \E r \in IdsOf(roles) : \E f \in IdsOf(features) :
        SetMapping(handleRoleDrop(mapping, r, Str(f)))

\* a menu of the palette is dropped on the menu zone of a feature row
FeatureMenuDrop ==
    /\ Quiet
    /\ \E r \in IdsOf(roles) : \E f \in ShownFeatures(r) :
        \E m \in IdsOf(menus) :
            SetMapping(handleFeatureMenuDrop(mapping, r, f, Str(m)))

\* a file is picked in the import input: a FileReader starts reading it
PickFile ==
    /\ Quiet
    /\ ~reading.busy
    /\ \E text \in CsvFiles : reading' = [busy |-> TRUE, text |-> text]
    /\ lastIdEdit' = NoIdEdit
    /\ UNCHANGED <<roles, perms, menus, mapping, stored, crud, rolesDirty,
                   persistDirty, hvars, pvars>>

\* a callback that commits after the first data line
ImportLoaded_partial ==
    /\ Quiet
    /\ reading.busy
    /\ reading' = NoFile
    /\ LET res == importCSV(reading.text)
           lines == NonBlank(SplitLines(reading.text))
       IN  /\ mapping' = IF res.ok
                         THEN ImportRows(SubSeq(lines, 2, 2), 1, EmptyObj)
                         ELSE mapping
           /\ persistDirty' = res.ok
    /\ lastIdEdit' = NoIdEdit
    /\ UNCHANGED <<roles, perms, menus, stored, crud, rolesDirty, hvars, pvars>>

\* reader.onload
ImportLoaded ==
    /\ Quiet
    /\ reading.busy
    /\ reading' = NoFile
    /\ LET res == importCSV(reading.text)
       IN  /\ mapping' = IF res.ok THEN res.mapping ELSE mapping
           /\ persistDirty' = res.ok
    /\ lastIdEdit' = NoIdEdit
    /\ UNCHANGED <<roles, perms, menus, stored, crud, rolesDirty, hvars, pvars>>

RoleNext ==
    \/ FlushEffects
    \/ RoleStartAdd
    \/ RoleStartEdit
    \/ RoleEditId
    \/ RoleSave
    \/ RoleCancel
    \/ RoleRemove
    \/ Toggle
    \/ RemoveFeature
    \/ RemoveMenu
    \/ ClearRole
    \/ RoleDrop
    \/ FeatureMenuDrop
    \/ PickFile
    \/ ImportLoaded

SpecRole == RoleInit /\ [][RoleNext]_vars

----------------------------------------------------------------------------
(* Claims about the Role admin as a whole.                                 *)

\* C1: once the effects have run to quiescence, every top-level key of the
\* role mapping is the string id of a role of the Role list.  The CSV
\* import commits its own mapping without changing the Role list, so the
\* "ensure roles keys" effect (deps [roles]) is not due after it.
C1_KeysAreRoles == Quiet => DOMAIN mapping \subseteq RoleIdsOf(roles)

\* C5: after a save that edited the id of a role from a to an unused b, and
\* the reconciliation that follows, what was mapped under a is mapped
\* under b.  CrudList.save keeps the id of the edited item and calls no
\* hook, so the entry stays under a.
C5_IdEditKeepsData ==
    (/\ Quiet
     /\ lastIdEdit.kind = "edit"
     /\ lastIdEdit.free
     /\ lastIdEdit.had
     /\ lastIdEdit.entry # EmptyObj)
    => /\ Has(mapping, Str(lastIdEdit.to))
       /\ mapping[Str(lastIdEdit.to)] = lastIdEdit.entry

----------------------------------------------------------------------------
(* Package admin: persistence shape and CSV import (PackageFeatureAdmin).  *)
(* The persisted mapping is packageId -> array of featureId strings.       *)

\* toPersist(mapping): each Set as an array (listed in one fixed order)
toPersist(m) == [k \in DOMAIN m |-> SetToSeq(m[k])]

\* fromPersist(raw): each array as a Set
fromPersist(raw) == [k \in DOMAIN raw |-> {raw[k][i] : i \in DOMAIN raw[k]}]

UpperCase == <<"A", "B", "C", "D", "E", "F", "G", "H", "I", "J", "K", "L", "M",
               "N", "O", "P", "Q", "R", "S", "T", "U", "V", "W", "X", "Y", "Z">>
LowerCase == <<"a", "b", "c", "d", "e", "f", "g", "h", "i", "j", "k", "l", "m",
               "n", "o", "p", "q", "r", "s", "t", "u", "v", "w", "x", "y", "z">>

\* toLowerCase of one character
toLowerCase(c) ==
    IF \E i \in DOMAIN UpperCase : UpperCase[i] = c
    THEN LowerCase[CHOOSE i \in DOMAIN UpperCase : UpperCase[i] = c]
    ELSE c

\* the characters /[a-z0-9]/
AlphaNum == {LowerCase[i] : i \in DOMAIN LowerCase}
                \cup {Digit[i] : i \in DOMAIN Digit}

\* normalize(s): lower case, everything but a-z0-9 removed
normalize(cs) ==
    SelectSeq([i \in DOMAIN cs |-> toLowerCase(cs[i])],
              LAMBDA c : c \in AlphaNum)

\* parseLine of parseCSV: the cells of the line, each trimmed
parseCells(line) ==
    LET cells == parseLine(line) IN [i \in DOMAIN cells |-> Trim(cells[i])]

\* first and last position of header h
FirstPos(headers, h) ==
    CHOOSE i \in DOMAIN headers :
        headers[i] = h /\ \A j \in DOMAIN headers : headers[j] = h => i <= j
LastPos(headers, h) ==
    CHOOSE i \in DOMAIN headers :
        headers[i] = h /\ \A j \in DOMAIN headers : headers[j] = h => j <= i

\* one row object of parseCSV with its keys normalized: obj[h] = cells[i]
\* ?? "" for every header (a repeated header keeps its last cell), then
\* normRow[normalize(k)] = v over the entries of obj (of the headers with
\* one normal form the one entered last wins)
normRow(headers, cells) ==
    LET keys == {Concat(normalize(headers[i])) : i \in DOMAIN headers}
        winner(n) ==
            CHOOSE i \in DOMAIN headers :
                /\ Concat(normalize(headers[i])) = n
                /\ i = FirstPos(headers, headers[i])
                /\ \A j \in DOMAIN headers :
                       (Concat(normalize(headers[j])) = n
                            /\ j = FirstPos(headers, headers[j])) => j <= i
        cell(i) == IF i <= Len(cells) THEN cells[i] ELSE <<>>
    IN  [n \in keys |-> cell(LastPos(headers, headers[winner(n)]))]

\* parseCSV(text) followed by the normalization of each row's keys
parseCSV(text) ==
    LET filtered == NonBlank(SplitLines(text))
    IN  IF filtered = <<>> THEN <<>>
        ELSE LET headers == parseCells(filtered[1])
             IN  [r \in 1..(Len(filtered) - 1) |->
                     normRow(headers, parseCells(filtered[r + 1]))]

\* row[key] ?? dflt
Field(row, key, dflt) == IF key \in DOMAIN row THEN row[key] ELSE dflt

NaN == [nan |-> TRUE]
Num(n) == [nan |-> FALSE, n |-> n]

RECURSIVE DigitsValue(_, _)
DigitsValue(cs, acc) ==
    IF cs = <<>> THEN acc
    ELSE DigitsValue(Tail(cs),
             10 * acc + (CHOOSE d \in 0..9 : Digit[d + 1] = cs[1]))

\* Number(s) of a trimmed, non-empty token: the value of a string of
\* decimal digits; NaN for the other tokens of this model (tokens with a
\* sign, a point, an exponent or a radix prefix are not drawn)
Number(cs) ==
    IF \A i \in DOMAIN cs : \E d \in DOMAIN Digit : Digit[d] = cs[i]
    THEN Num(DigitsValue(cs, 0))
    ELSE NaN

\* nextIdFor(arr)
nextIdFor(arr) ==
    IF Len(arr) > 0 THEN MaxOf({arr[i].id : i \in DOMAIN arr}) + 1 ELSE 1

\* new Map(items.map((x) => [String(x.id), x])): of two items with one id
\* the later one is kept
EntityMap(items) ==
    [k \in {Str(items[i].id) : i \in DOMAIN items} |->
        items[CHOOSE i \in DOMAIN items :
                  /\ Str(items[i].id) = k
                  /\ \A j \in DOMAIN items : Str(items[j].id) = k => j <= i]]

RECURSIVE SortedById(_)
\* Array.from(map.values()).sort((a, b) => a.id - b.id)
SortedById(m) ==
    IF DOMAIN m = {} THEN <<>>
    ELSE LET k == CHOOSE x \in DOMAIN m :
                      \A y \in DOMAIN m : m[x].id <= m[y].id
         IN  <<m[k]>> \o SortedById([y \in DOMAIN m \ {k} |-> m[y]])

\* an upsert that never looks the token up: every row creates a record
Upsert_always(map, token, name, stale) ==
    LET idNum == Number(token)
        id == IF idNum.nan THEN nextIdFor(stale) ELSE idNum.n
    IN  Put(map, Str(id), Entity(id, Concat(name)))

\* the upsert of one entity: token is the trimmed id cell, name the name
\* cell, stale the list the handler closed over
Upsert(map, token, name, stale) ==
    LET key == Concat(token)
    IN  IF ~Has(map, key)
        THEN LET idNum == Number(token)
                 id == IF idNum.nan THEN nextIdFor(stale) ELSE idNum.n
             IN  Put(map, Str(id), Entity(id, Concat(name)))
        ELSE IF name # <<>>
             THEN Put(map, key, [map[key] EXCEPT !.name = Concat(name)])
             ELSE map

\* newPersist[pkgId] ??= []; push featId unless included
AddLink(persist, pkgId, featId) ==
    LET p1 == PutIfAbsent(persist, pkgId, <<>>)
    IN  IF \E i \in DOMAIN p1[pkgId] : p1[pkgId][i] = featId THEN p1
        ELSE Put(p1, pkgId, Append(p1[pkgId], featId))

RECURSIVE ImportPkgRows(_, _, _, _, _)
\* parsed.forEach((row) => ...) of reader.onload
ImportPkgRows(rows, i, acc, stalePkgs, staleFeats) ==
    IF i > Len(rows) THEN acc
    ELSE LET row == rows[i]
             pkgId == Trim(Field(row, "packageid",
                               Field(row, "package_id", <<>>)))
             featId == Trim(Field(row, "featureid",
                                Field(row, "feature_id", <<>>)))
         IN  IF pkgId = <<>> \/ featId = <<>>
             THEN ImportPkgRows(rows, i + 1, acc, stalePkgs, staleFeats)
             ELSE ImportPkgRows(rows, i + 1,
                      [pkgMap |-> Upsert(acc.pkgMap, pkgId,
                                      Field(row, "packagename", <<>>), stalePkgs),
                       featMap |-> Upsert(acc.featMap, featId,
                                       Field(row, "featurename", <<>>), staleFeats),
                       newPersist |-> AddLink(acc.newPersist,
                                          Concat(pkgId), Concat(featId))],
                      stalePkgs, staleFeats)

\* what reader.onload of handleFileChange commits, from the text and the
\* lists it closed over
handleFileLoaded(text, stalePkgs, staleFeats) ==
    LET parsed == parseCSV(text)
    IN  IF Len(parsed) = 0
        THEN [ok |-> FALSE]
        ELSE LET r == ImportPkgRows(parsed, 1,
                          [pkgMap |-> EntityMap(stalePkgs),
                           featMap |-> EntityMap(staleFeats),
                           newPersist |-> EmptyObj],
                          stalePkgs, staleFeats)
             IN  [ok |-> TRUE,
                  packages |-> SortedById(r.pkgMap),
                  features |-> SortedById(r.featMap),
                  mapping |-> fromPersist(r.newPersist)]

----------------------------------------------------------------------------
(* The Package admin as a state machine.  Event handlers run to            *)
(* completion; the effects of a commit run before the next event is        *)
(* handled.  A drop is one move of a feature shown in the feature column   *)
(* onto a package card.                                                    *)

\* longest Package list and longest Feature list explored
MaxPkgItems == 2
\* largest package id and feature id explored
MaxPkgId == 2

\* the seeded lists (data files of the repository)
defaultPackages == <<Entity(1, "Basic")>>
pkgDefaultFeatures == <<Entity(1, "Read")>>

createEmptyPackage(nextIdArg) == Entity(nextIdArg, "")
createEmptyFeature(nextIdArg) == Entity(nextIdArg, "")

HeaderPackageId == <<"P", "a", "c", "k", "a", "g", "e", " ", "I", "D">>
HeaderFeatureId == <<"f", "e", "a", "t", "u", "r", "e", "_", "i", "d">>
PkgCsvHeader == JoinWith(<<HeaderPackageId, HeaderFeatureId>>, <<",">>)
\* the CSV texts offered to the import
PkgCsvFiles ==
    {PkgCsvHeader,
     CsvText(<<PkgCsvHeader,
               CsvLine(<<<<"1">>, <<"2">>>>),
               CsvLine(<<<<"1">>, <<>>>>)>>),
     CsvText(<<PkgCsvHeader,
               CsvLine(<<<<"0", "1">>, <<"x">>>>)>>)}

\* what localStorage holds when the admin is mounted
PkgInitialItems ==
    {NoItem, BadItem,
     JsonItem([mapping |-> [k \in {"1", "3"} |->
                               IF k = "1" THEN <<"1", "3">> ELSE <<"1">>]])}

\* the initial mapping: from the stored item, else one empty set per package
pkgInitialMapping(item, pkgs) ==
    IF item.kind = "json" THEN fromPersist(item.v.mapping)
    ELSE [k \in {Str(pkgs[i].id) : i \in DOMAIN pkgs} |-> {}]

\* no effect is due
PkgQuiet == ~packagesDirty /\ ~featuresDirty /\ ~pkgPersistDirty

PkgInit ==
    /\ packages = defaultPackages
    /\ pkgFeatures = pkgDefaultFeatures
    /\ pkgStored \in PkgInitialItems
    /\ pkgMapping = pkgInitialMapping(pkgStored, defaultPackages)
    /\ pkgReading = NoFile
    /\ packagesDirty = TRUE
    /\ featuresDirty = TRUE
    /\ pkgPersistDirty = TRUE
    /\ RoleIdle
    /\ hPc = "off" /\ hMap = EmptyObj /\ hRaw = JNull
    /\ hArgs = NoArgs /\ hOut = EmptyObj

\* the effects of one commit, in the order they are declared: "ensure
\* package keys" (deps [packages]) queues an update of the mapping,
\* "persist" (deps [packages, features, mapping]) writes the mapping of the
\* commit it runs in, "feature cleanup" (deps [features]) queues a second
\* update
PkgFlushEffects ==
    /\ ~PkgQuiet
    /\ pkgMapping' =
           LET m1 == IF packagesDirty
                     THEN ensurePackageKeys(pkgMapping, packages)
                     ELSE pkgMapping
           IN  IF featuresDirty THEN cleanupFeatures(m1, pkgFeatures) ELSE m1
    /\ pkgStored' =
           IF pkgPersistDirty
           THEN JsonItem([packages |-> packages, features |-> pkgFeatures,
                          mapping |-> toPersist(pkgMapping)])
           ELSE pkgStored
    /\ packagesDirty' = FALSE
    /\ featuresDirty' = FALSE
    /\ pkgPersistDirty' = (packagesDirty \/ featuresDirty)
    /\ UNCHANGED <<packages, pkgFeatures, pkgReading, rvars, hvars>>

\* a commit of setPackages
SetPackages(next) ==
    /\ packages' = next
    /\ packagesDirty' = TRUE
    /\ pkgPersistDirty' = TRUE
    /\ UNCHANGED <<pkgFeatures, pkgMapping, pkgStored, pkgReading,
                   featuresDirty, rvars, hvars>>

\* a commit of setFeatures
SetFeatures(next) ==
    /\ pkgFeatures' = next
    /\ featuresDirty' = TRUE
    /\ pkgPersistDirty' = TRUE
    /\ UNCHANGED <<packages, pkgMapping, pkgStored, pkgReading,
                   packagesDirty, rvars, hvars>>

\* CrudList (Packages), whose form has no ID field: Add then Save, the
\* draft being createItem(nextId())
PkgAdd ==
    /\ PkgQuiet
    /\ Len(packages) < MaxPkgItems
    /\ nextId(packages) <= MaxPkgId
    /\ SetPackages(CrudSave(packages, -1, createEmptyPackage(nextId(packages))))

\* CrudList (Packages): Edit then Save of an item
PkgEdit ==
    /\ PkgQuiet
    /\ \E id \in IdsOf(packages) :
           SetPackages(CrudSave(packages, id, FindById(packages, id)))

\* CrudList (Packages): Delete button of an item
PkgRemove ==
    /\ PkgQuiet
    /\ \E id \in IdsOf(packages) : SetPackages(CrudRemove(packages, id))

\* CrudList (Features): Add then Save
FeatAdd ==
    /\ PkgQuiet
    /\ Len(pkgFeatures) < MaxPkgItems
    /\ nextId(pkgFeatures) <= MaxPkgId
    /\ SetFeatures(CrudSave(pkgFeatures, -1,
                            createEmptyFeature(nextId(pkgFeatures))))

\* CrudList (Features): Edit then Save of an item
FeatEdit ==
    /\ PkgQuiet
    /\ \E id \in IdsOf(pkgFeatures) :
           SetFeatures(CrudSave(pkgFeatures, id, FindById(pkgFeatures, id)))

\* CrudList (Features): Delete button of an item
FeatRemove ==
    /\ PkgQuiet
    /\ \E id \in IdsOf(pkgFeatures) : SetFeatures(CrudRemove(pkgFeatures, id))

\* setMap of the controlled mapper: updater(cloneMap(value)) is handed to
\* onChange, which commits it
PkgSetMapping(next) ==
    /\ pkgMapping' = next
    /\ pkgPersistDirty' = TRUE
    /\ UNCHANGED <<packages, pkgFeatures, pkgStored, pkgReading,
                   packagesDirty, featuresDirty, rvars, hvars>>

\* a feature of the feature column is dropped on a package card
PackageDrop ==
    /\ PkgQuiet
    /\ \E pkgId \in IdsOf(packages), fid \in IdsOf(pkgFeatures) :
           PkgSetMapping(handlePackageDrop(cloneMap(pkgMapping), pkgId, Str(fid)))

\* the remove button of a mapped feature; shown when the feature is in the
\* Feature list
RemoveMapping ==
    /\ PkgQuiet
    /\ \E pkgId \in IdsOf(packages) :
        /\ Has(pkgMapping, Str(pkgId))
        /\ \E fid \in pkgMapping[Str(pkgId)] :
            /\ \E f \in IdsOf(pkgFeatures) : Str(f) = fid
            /\ PkgSetMapping(removeMapping(cloneMap(pkgMapping), pkgId, fid))

\* the Clear button of a package card
ClearPackage ==
    /\ PkgQuiet
    /\ \E pkgId \in IdsOf(packages) :
           PkgSetMapping(clearPackage(cloneMap(pkgMapping), pkgId))

\* handleFileChange: a file is picked, the reader starts; its onload
\* handler closes over the lists of this render
PkgPickFile ==
    /\ PkgQuiet
    /\ ~pkgReading.busy
    /\ \E text \in PkgCsvFiles :
        /\ LET r == handleFileLoaded(text, packages, pkgFeatures)
           IN  r.ok => /\ Len(r.packages) <= MaxPkgItems
                       /\ Len(r.features) <= MaxPkgItems
                       /\ \A id \in IdsOf(r.packages) \cup IdsOf(r.features) :
                              id <= MaxPkgId
        /\ pkgReading' = [busy |-> TRUE, text |-> text,
                          packages |-> packages, features |-> pkgFeatures]
    /\ UNCHANGED <<packages, pkgFeatures, pkgMapping, pkgStored,
                   packagesDirty, featuresDirty, pkgPersistDirty,
                   rvars, hvars>>

\* reader.onload: nothing is committed when the text has no data row;
\* otherwise the three states are replaced
PkgImportLoaded ==
    /\ PkgQuiet
    /\ pkgReading.busy
    /\ pkgReading' = NoFile
    /\ LET r == handleFileLoaded(pkgReading.text, pkgReading.packages,
                                 pkgReading.features)
       IN  IF r.ok
           THEN /\ packages' = r.packages
                /\ pkgFeatures' = r.features
                /\ pkgMapping' = r.mapping
                /\ packagesDirty' = TRUE
                /\ featuresDirty' = TRUE
                /\ pkgPersistDirty' = TRUE
           ELSE UNCHANGED <<packages, pkgFeatures, pkgMapping, packagesDirty,
                            featuresDirty, pkgPersistDirty>>
    /\ UNCHANGED <<pkgStored, rvars, hvars>>

PkgNext ==
    \/ PkgFlushEffects
    \/ PkgAdd
    \/ PkgEdit
    \/ PkgRemove
    \/ FeatAdd
    \/ FeatEdit
    \/ FeatRemove
    \/ PackageDrop
    \/ RemoveMapping
    \/ ClearPackage
    \/ PkgPickFile
    \/ PkgImportLoaded

SpecPkg == PkgInit /\ [][PkgNext]_vars

----------------------------------------------------------------------------
(* Claims about the Package admin as a whole.                              *)

\* C7: once the effects have run to quiescence, every key of the package
\* mapping is the string id of a package of the Package list and every
\* member of every feature set is the string id of a feature of the
\* Feature list.
C7_PkgKeysAndMembers ==
    PkgQuiet =>
        /\ DOMAIN pkgMapping \subseteq {Str(id) : id \in IdsOf(packages)}
        /\ \A k \in DOMAIN pkgMapping :
               pkgMapping[k] \subseteq {Str(id) : id \in IdsOf(pkgFeatures)}

\* quiescent, after package 1 was removed and a feature 2 was added,
\* with feature 2 mapped
C7_Witness ==
    /\ PkgQuiet
    /\ 1 \notin IdsOf(packages)
    /\ \E k \in DOMAIN pkgMapping : "2" \in pkgMapping[k]

----------------------------------------------------------------------------
(* Harness of the CSV routines: one routine applied to a file built from   *)
(* rows of cells, with the state it is applied in drawn from a small set.  *)

\* longest list of data rows of a file
MaxRows == 3

\* variant of importOnload that merges the rows into the previous mapping
importOnload_merge(prev, text) ==
    LET res == importCSV(text)
    IN  IF res.ok
        THEN [committed |-> TRUE,
              mapping |-> [k \in DOMAIN prev \cup DOMAIN res.mapping |->
                              IF k \in DOMAIN res.mapping THEN res.mapping[k]
                              ELSE prev[k]],
              notice |-> [kind |-> "success", rows |-> res.count]]
        ELSE [committed |-> FALSE, mapping |-> prev,
              notice |-> [kind |-> "error"]]

\* reader.onload of importCSV as a whole: whether setMapping is called, the
\* mapping after it, and the alert shown
importOnload(prev, text) ==
    LET res == importCSV(text)
    IN  IF res.ok
        THEN [committed |-> TRUE, mapping |-> res.mapping,
              notice |-> [kind |-> "success", rows |-> res.count]]
        ELSE [committed |-> FALSE, mapping |-> prev,
              notice |-> [kind |-> "error"]]

\* rows with the four ids present; the last one has padded ids, a name
\* with a comma and a quote, and an eighth column
HGoodRows ==
    {RoleRow(<<"1">>, <<"1">>, <<"1">>, <<"1">>),
     RoleRow(<<"1">>, <<"1">>, <<"1">>, <<"2">>),
     RoleRow(<<"3">>, <<"2">>, <<"1">>, <<"1">>),
     <<<<" ", "1", " ">>, <<"A", ",", "\"", "b">>, <<"2">>, <<>>,
       <<"1", "\t">>, <<>>, <<"7">>, <<"x">>>>}

\* rows that are skipped: five columns, an empty role id, a blank action
\* id; and the empty row, which is a blank line
HBadRows ==
    {<<<<"1">>, <<>>, <<"1">>, <<>>, <<"1">>>>,
     RoleRow(<<>>, <<"1">>, <<"1">>, <<"1">>),
     RoleRow(<<"1">>, <<"1">>, <<"1">>, <<" ">>),
     <<>>}

RowListsOver(S) == UNION {[1..n -> S] : n \in 0..MaxRows}

\* mappings in place when the import runs
HPriors ==
    {EmptyObj,
     [r \in {"1", "2"} |->
         IF r = "1" THEN [f \in {"1"} |-> [m \in {"1"} |-> {"1", "9"}]]
         ELSE EmptyObj],
     [r \in {"9"} |-> [f \in {"9"} |-> [m \in {"9"} |-> {"9"}]]]}

\* the row has seven columns and its four ids are not blank
RowAccepted(cells) ==
    /\ Len(cells) >= 7
    /\ \A i \in {1, 3, 5, 7} : Trim(cells[i]) # <<>>

\* the (role, feature, menu, action) of a row
RowQuad(cells) ==
    <<Concat(Trim(cells[1])), Concat(Trim(cells[3])),
      Concat(Trim(cells[5])), Concat(Trim(cells[7]))>>

AcceptedQuads(rows) ==
    {RowQuad(rows[i]) : i \in {j \in DOMAIN rows : RowAccepted(rows[j])}}

\* Role files without a data line: an empty text, blank lines only
HEmptyTexts == {<<>>, <<" ", "\r", "\n", "\n", "\t">>}

\* a variant of the Package callback that commits the empty collections
\* when the file has no rows
handleFileOnload_wipe(prev, text) ==
    LET res == handleFileLoaded(text, prev.packages, prev.features)
    IN  IF res.ok
        THEN [committed |-> TRUE, packages |-> res.packages,
              features |-> res.features, mapping |-> res.mapping,
              notice |-> [kind |-> "success",
                          count |-> Cardinality(DOMAIN res.mapping)]]
        ELSE [committed |-> TRUE, packages |-> <<>>,
              features |-> <<>>, mapping |-> EmptyObj,
              notice |-> [kind |-> "error"]]

\* reader.onload of handleFileChange with no CRUD gesture between the pick
\* and the callback: the lists it closed over are the current ones.  The
\* state it leaves and the alert it shows.
handleFileOnload(prev, text) ==
    LET res == handleFileLoaded(text, prev.packages, prev.features)
    IN  IF res.ok
        THEN [committed |-> TRUE, packages |-> res.packages,
              features |-> res.features, mapping |-> res.mapping,
              notice |-> [kind |-> "success",
                          count |-> Cardinality(DOMAIN res.mapping)]]
        ELSE [committed |-> FALSE, packages |-> prev.packages,
              features |-> prev.features, mapping |-> prev.mapping,
              notice |-> [kind |-> "error"]]

\* the effects that run after the commit of an import: ensure package
\* keys, then feature cleanup
reconcile(st) ==
    [st EXCEPT !.mapping =
        cleanupFeatures(ensurePackageKeys(st.mapping, st.packages),
                        st.features)]

HeaderPackageName ==
    <<"p", "a", "c", "k", "a", "g", "e", "_", "n", "a", "m", "e">>
HeaderFeatureName ==
    <<"F", "e", "a", "t", "u", "r", "e", " ", "N", "a", "m", "e">>
HPkgHeader ==
    JoinWith(<<HeaderPackageId, HeaderPackageName,
               HeaderFeatureId, HeaderFeatureName>>, <<",">>)

\* a data row of a package-feature file: package id and name, feature id
\* and name
PkgRow(p, pn, f, fn) == <<p, pn, f, fn>>
CharsThree == <<"T", "h", "r", "e", "e">>
CharsTwo == <<"T", "w", "o">>
HPkgRows ==
    {PkgRow(<<"1">>, <<>>, <<"1">>, <<>>),
     PkgRow(<<"1">>, <<"N", "e", "w">>, <<"2">>, CharsTwo),
     PkgRow(<<"0", "1">>, <<>>, <<"1">>, <<>>),
     PkgRow(<<"x">>, <<"E", "x">>, <<"y">>, <<"W", "h", "y">>),
     PkgRow(<<"3">>, CharsThree, <<"1">>, <<>>),
     PkgRow(<<"3">>, <<>>, <<" ", "2">>, <<>>),
     PkgRow(<<>>, <<"N", "o">>, <<"1">>, <<>>),
     PkgRow(<<"2">>, <<>>, <<" ">>, <<>>)}

PkgCsvFile(rows) ==
    CsvText(<<HPkgHeader>> \o [i \in DOMAIN rows |-> CsvLine(rows[i])])

\* the lists and the mapping the Package admin holds when the file is read
HPkgPriors ==
    {[packages |-> ps, features |-> fs, mapping |-> m] :
        ps \in {<<>>, defaultPackages,
                <<Entity(1, "Basic"), Entity(2, "Pro")>>},
        fs \in {pkgDefaultFeatures},
        m \in {EmptyObj, [k \in {"1"} |-> {"1"}]}}

\* the header row of the exported file
ExportHeader ==
    <<"r", "o", "l", "e", "_", "i", "d", ",", "r", "o", "l", "e", "_",
      "n", "a", "m", "e", ",", "f", "e", "a", "t", "u", "r", "e", "_",
      "i", "d", ",", "f", "e", "a", "t", "u", "r", "e", "_", "n", "a",
      "m", "e", ",", "m", "e", "n", "u", "_", "i", "d", ",", "m", "e",
      "n", "u", "_", "n", "a", "m", "e", ",", "p", "e", "r", "m", "i",
      "s", "s", "i", "o", "n", "_", "a", "c", "t", "i", "o", "n", "_",
      "i", "d", ",", "p", "e", "r", "m", "i", "s", "s", "i", "o", "n",
      "_", "a", "c", "t", "i", "o", "n", "_", "n", "a", "m", "e", ",",
      "p", "e", "r", "m", "i", "s", "s", "i", "o", "n", "_", "a", "c",
      "t", "i", "o", "n", "_", "c", "o", "d", "e", ",", "c", "r", "e",
      "a", "t", "e", "d", "A", "t", ",", "u", "p", "d", "a", "t", "e",
      "d", "A", "t", ",", "c", "r", "e", "a", "t", "e", "d", "B", "y",
      ",", "u", "p", "d", "a", "t", "e", "d", "B", "y">>

\* the texts the export writes, character by character: ids, entity names
\* and the constant "system"
KnownTexts ==
    {<<>>, <<"s", "y", "s", "t", "e", "m">>,
     <<"A", "d", "m", "i", "n">>, <<"U", "s", "e", "r">>,
     <<"D", "a", "s", "h", "b", "o", "a", "r", "d">>,
     <<"H", "o", "m", "e">>, <<"V", "i", "e", "w">>,
     <<"B", "a", "s", "i", "c">>, <<"P", "r", "o">>,
     <<"R", "e", "a", "d">>, <<"v", "i", "e", "w">>,
     <<"P", "r", "o", " ">>}
    \cup {<<Digit[d]>> : d \in DOMAIN Digit}

\* the characters of a string
Chars(str) == CHOOSE cs \in KnownTexts : Concat(cs) = str

\* variant: an id that matches no item is given the first item's field
FieldOfFound_first(items, key, field) ==
    LET hits == {i \in DOMAIN items : Str(items[i].id) = key}
    IN  IF items = <<>> THEN ""
        ELSE LET item == IF hits = {} THEN items[1]
                         ELSE items[CHOOSE i \in hits : \A j \in hits : i <= j]
             IN  IF field \in DOMAIN item THEN item[field] ELSE ""

\* items.find((x) => String(x.id) === key), then ?.field ?? ""
FieldOfFound(items, key, field) ==
    LET hits == {i \in DOMAIN items : Str(items[i].id) = key}
    IN  IF hits = {} THEN ""
        ELSE LET item == items[CHOOSE i \in hits : \A j \in hits : i <= j]
             IN  IF field \in DOMAIN item THEN item[field] ELSE ""

RECURSIVE Flatten(_)
\* the rows pushed by nested forEach loops, in the order they are pushed
Flatten(seqs) ==
    IF seqs = <<>> THEN <<>> ELSE seqs[1] \o Flatten(Tail(seqs))

\* a variant of the innermost loop: one row per menu entry
MenuRows_first(rid, fid, mid, set, lists, now) ==
    IF set = {} THEN <<>>
    ELSE LET pids == SetToSeq(set)
         IN  [i \in {1} |->
                 CsvLine(<<Chars(rid),
                           Chars(FieldOfFound(lists.roles, rid, "name")),
                           Chars(fid),
                           Chars(FieldOfFound(lists.features, fid, "name")),
                           Chars(mid),
                           Chars(FieldOfFound(lists.menus, mid, "name")),
                           Chars(pids[i]),
                           Chars(FieldOfFound(lists.perms, pids[i], "name")),
                           Chars(FieldOfFound(lists.perms, pids[i], "code")),
                           now, now, Chars("system"), Chars("system")>>)]

\* the rows of one menu entry: none for an empty set, else one per action
MenuRows(rid, fid, mid, set, lists, now) ==
    IF set = {} THEN <<>>
    ELSE LET pids == SetToSeq(set)
         IN  [i \in DOMAIN pids |->
                 CsvLine(<<Chars(rid),
                           Chars(FieldOfFound(lists.roles, rid, "name")),
                           Chars(fid),
                           Chars(FieldOfFound(lists.features, fid, "name")),
                           Chars(mid),
                           Chars(FieldOfFound(lists.menus, mid, "name")),
                           Chars(pids[i]),
                           Chars(FieldOfFound(lists.perms, pids[i], "name")),
                           Chars(FieldOfFound(lists.perms, pids[i], "code")),
                           now, now, Chars("system"), Chars("system")>>)]

\* exportCSV: the text handed to the download
exportCSV(m, lists, now) ==
    LET rids == SetToSeq(DOMAIN m)
        featureRows(rid, fid) ==
            LET mids == SetToSeq(DOMAIN m[rid][fid])
            IN  Flatten([k \in DOMAIN mids |->
                    MenuRows(rid, fid, mids[k], m[rid][fid][mids[k]],
                             lists, now)])
        roleRows(rid) ==
            LET fids == SetToSeq(DOMAIN m[rid])
            IN  Flatten([j \in DOMAIN fids |-> featureRows(rid, fids[j])])
    IN  CsvText(<<ExportHeader>>
                    \o Flatten([i \in DOMAIN rids |-> roleRows(rids[i])]))

\* the header row of the exported package-feature file
PkgExportHeader ==
    <<"p", "a", "c", "k", "a", "g", "e", "_", "i", "d", ",", "p", "a",
      "c", "k", "a", "g", "e", "_", "n", "a", "m", "e", ",", "f", "e",
      "a", "t", "u", "r", "e", "_", "i", "d", ",", "f", "e", "a", "t",
      "u", "r", "e", "_", "n", "a", "m", "e", ",", "c", "r", "e", "a",
      "t", "e", "d", "A", "t", ",", "u", "p", "d", "a", "t", "e", "d",
      "A", "t", ",", "c", "r", "e", "a", "t", "e", "d", "B", "y", ",",
      "u", "p", "d", "a", "t", "e", "d", "B", "y">>

\* exportCSV of the Package admin: one row per feature id of each array of
\* toPersist(mapping)
pkgExportCSV(m, pkgs, feats, now) ==
    LET persist == toPersist(m)
        pkgIds == SetToSeq(DOMAIN persist)
        rowsOf(pkgId) ==
            [j \in DOMAIN persist[pkgId] |->
                CsvLine(<<Chars(pkgId),
                          Chars(FieldOfFound(pkgs, pkgId, "name")),
                          Chars(persist[pkgId][j]),
                          Chars(FieldOfFound(feats, persist[pkgId][j], "name")),
                          now, now, Chars("system"), Chars("system")>>)]
    IN  CsvText(<<PkgExportHeader>>
                    \o Flatten([i \in DOMAIN pkgIds |-> rowsOf(pkgIds[i])]))

\* entity lists an export of the Role admin runs with: the seeded lists
\* (only the roles match keys of the mappings drawn), and lists in which
\* role 2 is missing and a feature, a menu and an action match
HExportLists ==
    [roles |-> defaultRoles, features |-> features,
     menus |-> defaultMenus, perms |-> defaultPermActions]
HExportListsOther ==
    [roles |-> <<Entity(1, "Admin")>>,
     features |-> <<Entity(2, "Dashboard")>>,
     menus |-> <<Entity(3, "Home")>>,
     perms |-> <<[id |-> 5, name |-> "View", code |-> "view"]>>]

\* states of the Package admin an export runs in; the mapping may name
\* package 3 and feature 2, which are in no list
HPkgExportStates ==
    {[packages |-> ps, features |-> pkgDefaultFeatures, mapping |-> m] :
        ps \in {<<>>, defaultPackages,
                <<Entity(1, "Basic"), Entity(2, "Pro")>>,
                <<Entity(1, "Basic"), Entity(3, "Pro")>>,
                <<Entity(3, "Basic"), Entity(1, "Pro ")>>},
        m \in FnsOver({"1", "3"}, SUBSET {"1", "2"})}

\* fields of a CSV line: texts of up to MaxFieldLen characters, with
\* commas, double quotes and blanks
MaxFieldLen == 3
MaxFields == 2
HFieldChars == {"a", ",", "\"", " "}
HFields == UNION {[1..n -> HFieldChars] : n \in 0..MaxFieldLen}
HFieldLists == UNION {[1..n -> HFields] : n \in 0..MaxFields}

HNow == <<"1", "7">>

CsvInit ==
    /\ RoleIdle
    /\ PkgIdle
    /\ hRaw = JNull
    /\ hOut = EmptyObj
    /\ \/ /\ hPc = "rinit"
          /\ hMap \in HPriors
          /\ \/ \E rows \in RowListsOver(HGoodRows \cup HBadRows) :
                    hArgs = [rows |-> rows, text |-> RoleCsvFile(rows)]
             \/ \E text \in HEmptyTexts :
                    hArgs = [rows |-> <<>>, text |-> text]
       \/ /\ hPc = "pinit"
          /\ hMap \in HPkgPriors
          /\ \/ \E rows \in RowListsOver(HPkgRows) :
                    hArgs = [rows |-> rows, text |-> PkgCsvFile(rows)]
             \/ \E text \in HEmptyTexts :
                    hArgs = [rows |-> <<>>, text |-> text]
       \/ /\ hPc = "xinit"
          /\ hMap \in HMaps
          /\ \E lists \in {HExportLists, HExportListsOther} :
                 hArgs = [now |-> HNow, lists |-> lists]
       \/ /\ hPc = "pxinit"
          /\ hMap \in HPkgExportStates
          /\ hArgs = [now |-> HNow]
       \/ /\ hPc = "qinit"
          /\ hMap = EmptyObj
          /\ \E fields \in HFieldLists : hArgs = [fields |-> fields]

\* the Role import reads the file
ApplyImportCSV ==
    /\ hPc = "rinit"
    /\ hOut' = importOnload(hMap, hArgs.text)
    /\ hPc' = "imported"
    /\ UNCHANGED <<hMap, hRaw, hArgs>>
    /\ UNCHANGED <<rvars, pvars>>

\* the Package import reads the file
ApplyHandleFile ==
    /\ hPc = "pinit"
    /\ hOut' = handleFileOnload(hMap, hArgs.text)
    /\ hPc' = "pimported"
    /\ UNCHANGED <<hMap, hRaw, hArgs>>
    /\ UNCHANGED <<rvars, pvars>>

\* the effects of the commit of a Package import run
ApplyReconcile ==
    /\ hPc = "pimported"
    /\ hOut.committed
    /\ hOut' = reconcile(hOut)
    /\ hPc' = "psettled"
    /\ UNCHANGED <<hMap, hRaw, hArgs>>
    /\ UNCHANGED <<rvars, pvars>>

\* the Export button of the Role admin
ApplyExportCSV ==
    /\ hPc = "xinit"
    /\ hOut' = [csv |-> exportCSV(hMap, hArgs.lists, hArgs.now)]
    /\ hPc' = "exported"
    /\ UNCHANGED <<hMap, hRaw, hArgs>>
    /\ UNCHANGED <<rvars, pvars>>

\* the exported file is picked in the import input of the Role admin
ApplyReimport ==
    /\ hPc = "exported"
    /\ hOut' = importOnload(hMap, hOut.csv)
    /\ hPc' = "reimported"
    /\ UNCHANGED <<hMap, hRaw, hArgs>>
    /\ UNCHANGED <<rvars, pvars>>

\* the Export button of the Package admin
ApplyPkgExportCSV ==
    /\ hPc = "pxinit"
    /\ hOut' = [csv |-> pkgExportCSV(hMap.mapping, hMap.packages,
                                     hMap.features, hArgs.now)]
    /\ hPc' = "pexported"
    /\ UNCHANGED <<hMap, hRaw, hArgs>>
    /\ UNCHANGED <<rvars, pvars>>

\* the exported file is picked in the import input of the Package admin:
\* the import commits and the effects of its commit run
ApplyPkgReimport ==
    /\ hPc = "pexported"
    /\ hOut' = reconcile(handleFileOnload(hMap, hOut.csv))
    /\ hPc' = "preimported"
    /\ UNCHANGED <<hMap, hRaw, hArgs>>
    /\ UNCHANGED <<rvars, pvars>>

\* the fields are written as a line by the export's esc and join, and the
\* line is read by the import's parseLine
ApplyQuoteParse ==
    /\ hPc = "qinit"
    /\ hOut' = [line |-> CsvLine(hArgs.fields),
                cols |-> parseLine(CsvLine(hArgs.fields))]
    /\ hPc' = "parsed"
    /\ UNCHANGED <<hMap, hRaw, hArgs>>
    /\ UNCHANGED <<rvars, pvars>>

CsvNext ==
    \/ ApplyImportCSV
    \/ ApplyHandleFile
    \/ ApplyReconcile
    \/ ApplyExportCSV
    \/ ApplyReimport
    \/ ApplyPkgExportCSV
    \/ ApplyPkgReimport
    \/ ApplyQuoteParse

SpecCsv == CsvInit /\ [][CsvNext]_vars

\* C11: after a successful Role import the mapping holds exactly the
\* (role, feature, menu, action) quadruples of the accepted rows: every
\* key of the mapping lies on the path of such a quadruple, and nothing of
\* the previous mapping survives.
C11_ImportReplaces ==
    (hPc = "imported" /\ hOut.committed) =>
        /\ Quads(hOut.mapping) = AcceptedQuads(hArgs.rows)
        /\ \A key \in PathKeys(hOut.mapping) :
               \E q \in AcceptedQuads(hArgs.rows) :
                   SubSeq(q, 1, Len(key)) = key

\* an import over a mapping with a link that is not in the file, of a
\* file with accepted rows
C11_Witness ==
    /\ hPc = "imported"
    /\ hOut.committed
    /\ AcceptedQuads(hArgs.rows) # {}
    /\ Quads(hMap) \ AcceptedQuads(hArgs.rows) # {}
    /\ Quads(hMap) \cap AcceptedQuads(hArgs.rows) # {}

\* the rows of a file that are not bad rows, in file order
GoodRowsOf(rows) == SelectSeq(rows, RowAccepted)

\* C12: a bad row (fewer than 7 columns, or an empty required id after
\* trimming) contributes nothing and does not stop the import: the mapping
\* committed for a file is the one committed for the same file with its bad
\* rows taken out, wherever the bad rows stand
C12_BadRowsSkipped ==
    (hPc = "imported" /\ hOut.committed) =>
        hOut.mapping =
            IF GoodRowsOf(hArgs.rows) = <<>> THEN EmptyObj
            ELSE importCSV(RoleCsvFile(GoodRowsOf(hArgs.rows))).mapping

\* a committed import of a file with a bad row between two accepted rows
C12_Witness ==
    /\ hPc = "imported" /\ hOut.committed
    /\ Len(hArgs.rows) = 3
    /\ RowAccepted(hArgs.rows[1])
    /\ ~RowAccepted(hArgs.rows[2]) /\ hArgs.rows[2] # <<>>
    /\ RowAccepted(hArgs.rows[3])
    /\ RowQuad(hArgs.rows[3]) \notin {RowQuad(hArgs.rows[1])}
    /\ RowQuad(hArgs.rows[3]) \in Quads(hOut.mapping)

\* the number of non-blank data lines of the file written from the rows
DataLines(rows) ==
    Cardinality({i \in DOMAIN rows : Trim(CsvLine(rows[i])) # <<>>})

\* C13: the count shown after a successful Role import is the number of
\* non-blank data lines of the file, accepted or not
C13_CountIsDataLines ==
    (hPc = "imported" /\ hOut.committed) =>
        hOut.notice.rows = DataLines(hArgs.rows)

\* the import has run on a file without data rows
RoleFileEmpty ==
    hPc = "imported" /\ Len(NonBlank(SplitLines(hArgs.text))) < 2
PkgFileEmpty ==
    hPc = "pimported" /\ Len(NonBlank(SplitLines(hArgs.text))) < 2

\* C14: an import of a file without data rows (Role: fewer than two
\* non-blank lines; Package: no parsed row) ends in the error notice and
\* leaves the mapping and the Package and Feature lists as they were
C14_EmptyFileNoChange ==
    /\ RoleFileEmpty =>
           /\ hOut.notice.kind = "error"
           /\ ~hOut.committed
           /\ hOut.mapping = hMap
    /\ PkgFileEmpty =>
           /\ hOut.notice.kind = "error"
           /\ ~hOut.committed
           /\ hOut.mapping = hMap.mapping
           /\ hOut.packages = hMap.packages
           /\ hOut.features = hMap.features

\* a Package import of a header-only file over a non-empty mapping
C14_Witness ==
    /\ PkgFileEmpty
    /\ hArgs.text = HPkgHeader
    /\ hMap.mapping # EmptyObj
    /\ hMap.packages # <<>>

\* a committed Package import
PkgCommitted == hPc = "pimported" /\ hOut.committed

\* every entity of the list before is in the list after, under its id and
\* not as a blank record
Kept(before, after) ==
    \A i \in DOMAIN before :
        \E j \in DOMAIN after :
            after[j].id = before[i].id /\ after[j].name # ""

SortedAscending(items) ==
    \A i, j \in DOMAIN items : i < j => items[i].id < items[j].id

\* C16: after a Package import every package and every feature that
\* existed before is still listed (none removed, none replaced by a blank
\* record) and both lists are sorted by id ascending
C16_KeepsEntities ==
    PkgCommitted =>
        /\ Kept(hMap.packages, hOut.packages)
        /\ Kept(hMap.features, hOut.features)
        /\ SortedAscending(hOut.packages)
        /\ SortedAscending(hOut.features)

\* a row of a package-feature file with a package id and a feature id
PkgRowAccepted(cells) == Trim(cells[1]) # <<>> /\ Trim(cells[3]) # <<>>

\* the id of the entity a row's token stands for: its number, or the
\* generated id when it is not a number
ResolvedId(token, list) ==
    LET n == Number(Trim(token))
    IN  IF n.nan THEN nextIdFor(list) ELSE n.n

\* C18: after the import and the reconciliation, for every accepted row
\* the mapping set of the row's package holds the id of the row's feature
C18_RowsLinked ==
    hPc = "psettled" =>
        \A i \in DOMAIN hArgs.rows :
            PkgRowAccepted(hArgs.rows[i]) =>
                LET pk == Str(ResolvedId(hArgs.rows[i][1], hMap.packages))
                    fk == Str(ResolvedId(hArgs.rows[i][3], hMap.features))
                IN  /\ pk \in DOMAIN hOut.mapping
                    /\ fk \in hOut.mapping[pk]

\* the accepted rows of the file whose column col resolves to id n
RowsFor(col, list, n) ==
    {i \in DOMAIN hArgs.rows :
        /\ PkgRowAccepted(hArgs.rows[i])
        /\ ResolvedId(hArgs.rows[i][col], list) = n}

\* the name the rows in R give: the non-empty name cell (column col + 1)
\* that comes last, "" when every name cell is empty
NameFrom(R, col) ==
    LET named == {i \in R : Trim(hArgs.rows[i][col + 1]) # <<>>}
    IN  IF named = {} THEN ""
        ELSE Concat(Trim(hArgs.rows[
                 CHOOSE i \in named : \A j \in named : j <= i][col + 1]))

\* the rows of R all carry the decimal numeral of n in column col
SameNumeral(R, col, n) ==
    \A i \in R : Concat(Trim(hArgs.rows[i][col])) = Str(n)

\* an id in one list at most once
UniqueIds(items) ==
    \A i, j \in DOMAIN items : items[i].id = items[j].id => i = j

\* every id a row stands for is listed once after the import, and an id
\* that was not listed before and is written as one numeral throughout the
\* file carries the name its rows give
CreatedOnce(col, before, after) ==
    \A i \in DOMAIN hArgs.rows :
        LET n == ResolvedId(hArgs.rows[i][col], before)
            R == RowsFor(col, before, n)
        IN  /\ i \in R =>
                   Cardinality({j \in DOMAIN after : after[j].id = n}) = 1
            /\ (/\ i \in R
                /\ SameNumeral(R, col, n)
                /\ n \notin {before[k].id : k \in DOMAIN before})
               => \A j \in DOMAIN after :
                      after[j].id = n => after[j].name = NameFrom(R, col)

\* C19: a row with a numeric id that is not in the list creates one entity
\* with that id and the row's name, later rows with the same id create no
\* further one (they keep the record and its name), and the ids of each
\* list stay unique; for packages and for features
C19_CreatedOnce ==
    PkgCommitted =>
        /\ UniqueIds(hOut.packages)
        /\ UniqueIds(hOut.features)
        /\ CreatedOnce(1, hMap.packages, hOut.packages)
        /\ CreatedOnce(3, hMap.features, hOut.features)

\* package 3 is not listed, the file names it twice: first with its name,
\* then without
C19_Witness ==
    /\ PkgCommitted
    /\ hMap.packages = defaultPackages
    /\ Len(hArgs.rows) >= 2
    /\ hArgs.rows[1] = PkgRow(<<"3">>, CharsThree, <<"1">>, <<>>)
    /\ hArgs.rows[2] = PkgRow(<<"3">>, <<>>, <<" ", "2">>, <<>>)
    /\ hOut.packages = <<Entity(1, "Basic"), Entity(3, "Three")>>

\* the step in which the read-completion callback of the Package import runs
PkgLoadStep == pkgReading.busy /\ ~pkgReading'.busy

\* C17: whatever the CRUD editors did between the pick of the file and the
\* read-completion callback, the callback keeps every package and every
\* feature that is listed when it runs
C17_ImportKeepsCurrent ==
    [][PkgLoadStep =>
          /\ IdsOf(packages) \subseteq IdsOf(packages')
          /\ IdsOf(pkgFeatures) \subseteq IdsOf(pkgFeatures')]_vars

\* the rows of a file offered to the Role admin
RowsOfFile(text) == CHOOSE rows \in CsvFileRows : RoleCsvFile(rows) = text

\* C15: the pick of a file leaves the mapping alone, and the
\* read-completion callback either leaves it alone (file without data
\* line) or replaces it in one step by the complete mapping of the file:
\* the quadruples of all its accepted rows, nothing else
C15_ImportAtomic ==
    [][/\ (~reading.busy /\ reading'.busy) => mapping' = mapping
       /\ (reading.busy /\ ~reading'.busy) =>
              IF RowsOfFile(reading.text) = <<>>
              THEN mapping' = mapping
              ELSE /\ Quads(mapping') = AcceptedQuads(RowsOfFile(reading.text))
                   /\ \A key \in PathKeys(mapping') :
                          \E q \in Quads(mapping') :
                              SubSeq(q, 1, Len(key)) = key]_vars

\* the callback has just committed the file with rows for roles 3 and 1
\* over a Role list without role 3
C15_Witness ==
    /\ ~reading.busy
    /\ persistDirty
    /\ DOMAIN mapping = {"1", "3"}
    /\ 3 \notin IdsOf(roles)
    /\ \E rows \in CsvFileRows :
           rows # <<>> /\ Quads(mapping) = AcceptedQuads(rows)

\* the data lines of the exported text
ExportedData == Tail(SplitLines(hOut.csv))

\* the (role, feature, menu, action) cells of an exported line
LineQuad(line) ==
    LET cols == parseLine(line)
    IN  <<Concat(cols[1]), Concat(cols[3]), Concat(cols[5]), Concat(cols[7])>>

\* C20: the exported text has the header line and one data line per
\* (role, feature, menu, action) of the mapping: as many data lines as the
\* action sets have members together, each quadruple on one of them; a role
\* without features, a feature without menus and a menu with an empty
\* action set give no line
C20_ExportOneRowPerQuad ==
    hPc = "exported" =>
        /\ SplitLines(hOut.csv)[1] = ExportHeader
        /\ Len(ExportedData) = Cardinality(Quads(hMap))
        /\ {LineQuad(ExportedData[i]) : i \in DOMAIN ExportedData}
               = Quads(hMap)
        /\ \A i \in DOMAIN ExportedData :
               Len(parseLine(ExportedData[i])) = 13

\* an export of a mapping with a role without features, a menu with an
\* empty action set and a menu with two actions
C20_Witness ==
    /\ hPc = "exported"
    /\ \E rid \in DOMAIN hMap : hMap[rid] = EmptyObj
    /\ \E rid \in DOMAIN hMap : \E fid \in DOMAIN hMap[rid] :
           \E mid \in DOMAIN hMap[rid][fid] : hMap[rid][fid][mid] = {}
    /\ \E rid \in DOMAIN hMap : \E fid \in DOMAIN hMap[rid] :
           \E mid \in DOMAIN hMap[rid][fid] :
               Cardinality(hMap[rid][fid][mid]) = 2
    /\ Len(ExportedData) = 2

----------------------------------------------------------------------------
(* Claims about the editors, the engine operations and persistence *)

\* C22: after any sequence of operations of the Roles editor (add with the
\* draft of startAdd, possibly changed in the form; edit and save; remove)
\* no two roles share an id
C22_RoleIdsUnique == UniqueIds(roles)

\* C26: once the effects have run, the stored item is the encoding of the
\* mapping in memory: decoding it gives that mapping back
C26_StoredIsMapping ==
    Quiet => /\ stored.kind = "json"
             /\ fromPersistRFMA(stored.v) = mapping

\* at rest after a role was removed and the reconciliation dropped its
\* entry, with actions granted to the remaining roles
C26_Witness ==
    /\ Quiet
    /\ Len(roles) < Len(defaultRoles)
    /\ DOMAIN mapping = RoleIdsOf(roles)
    /\ Quads(mapping) # {}

\* the (role, feature) paths of a mapping
FeaturePaths(m) == {key \in PathKeys(m) : Len(key) = 2}

\* C23: removing the last nested item keeps its parent.  removeMenuFromFeature
\* on the only menu of a (role, feature) entry leaves the feature key with
\* an empty menu map; toggling off the last action of a menu leaves the
\* menu key with an empty action set; and toggle, remove-menu, feature drop
\* and menu drop never make a feature key disappear
C23_ParentKept ==
    /\ (hPc = "removeMenu" /\ HPathInInput) =>
           /\ Str(hArgs.f) \in DOMAIN hOut[Str(hArgs.r)]
           /\ DOMAIN hOut[Str(hArgs.r)][Str(hArgs.f)] =
                  DOMAIN hMap[Str(hArgs.r)][Str(hArgs.f)] \ {hArgs.m}
    /\ (hPc = "toggle1" /\ HPathInInput
            /\ hMap[Str(hArgs.r)][Str(hArgs.f)][hArgs.m] = {Str(hArgs.p)}) =>
           /\ hArgs.m \in DOMAIN hOut[Str(hArgs.r)][Str(hArgs.f)]
           /\ hOut[Str(hArgs.r)][Str(hArgs.f)][hArgs.m] = {}
    /\ hPc \in {"removeMenu", "toggle1", "toggle2", "roleDrop", "menuDrop"} =>
           FeaturePaths(hMap) \subseteq FeaturePaths(hOut)

\* the only menu of a feature has been removed
C23_Witness ==
    /\ hPc = "removeMenu"
    /\ HPathInInput
    /\ DOMAIN hMap[Str(hArgs.r)][Str(hArgs.f)] = {hArgs.m}
    /\ hMap[Str(hArgs.r)][Str(hArgs.f)][hArgs.m] # {}
    /\ hOut[Str(hArgs.r)][Str(hArgs.f)] = EmptyObj

\* C24: clearRole(r) leaves the key r with an empty feature map, creating
\* it when absent, and every other role entry as it was; clearPackage(p)
\* leaves p with an empty feature set and every other set as it was
C24_ClearKeepsKey ==
    hPc \in {"clearRole", "clearPackage"} =>
        /\ DOMAIN hOut = DOMAIN hMap \cup {Str(hArgs.r)}
        /\ hOut[Str(hArgs.r)] = IF hPc = "clearRole" THEN EmptyObj ELSE {}
        /\ \A k \in DOMAIN hMap : k # Str(hArgs.r) => hOut[k] = hMap[k]

\* a role with features has been cleared beside another role with features
C24_Witness ==
    /\ hPc = "clearRole"
    /\ Str(hArgs.r) \in DOMAIN hMap
    /\ hMap[Str(hArgs.r)] # EmptyObj
    /\ \E k \in DOMAIN hOut : k # Str(hArgs.r) /\ hOut[k] # EmptyObj

\* C25: removeFeatureFromRole(r, f) takes the feature key f of role r away
\* with everything under it, keeps the role key, leaves every other
\* feature of r and every other role as they were, and changes nothing
\* when r or f is absent
C25_RemoveFeatureOnly ==
    hPc = "removeFeature" =>
        /\ DOMAIN hOut = DOMAIN hMap
        /\ \A k \in DOMAIN hMap :
               IF k = Str(hArgs.r)
               THEN /\ DOMAIN hOut[k] = DOMAIN hMap[k] \ {Str(hArgs.f)}
                    /\ \A fid \in DOMAIN hOut[k] : hOut[k][fid] = hMap[k][fid]
               ELSE hOut[k] = hMap[k]
        /\ <<Str(hArgs.r), Str(hArgs.f)>> \notin FeaturePaths(hMap) =>
               hOut = hMap

\* a feature with actions has been removed from a role that has another
\* feature
C25_Witness ==
    /\ hPc = "removeFeature"
    /\ <<Str(hArgs.r), Str(hArgs.f)>> \in FeaturePaths(hMap)
    /\ \E mid \in DOMAIN hMap[Str(hArgs.r)][Str(hArgs.f)] :
           hMap[Str(hArgs.r)][Str(hArgs.f)][mid] # {}
    /\ hOut[Str(hArgs.r)] # EmptyObj

\* the name an export writes for an id: the name of the listed entity with
\* that id, "" when there is none
NameOrEmpty(items, key) ==
    IF \E i \in DOMAIN items : Str(items[i].id) = key
    THEN (CHOOSE it \in {items[i] : i \in DOMAIN items} : Str(it.id) = key).name
    ELSE ""

\* the code an export writes for an action id
CodeOrEmpty(items, key) ==
    IF \E i \in DOMAIN items :
           Str(items[i].id) = key /\ "code" \in DOMAIN items[i]
    THEN (CHOOSE it \in {items[i] : i \in DOMAIN items} : Str(it.id) = key).code
    ELSE ""

\* the cells of an exported line, as strings
LineCells(line) ==
    LET cols == parseLine(line) IN [i \in DOMAIN cols |-> Concat(cols[i])]

\* C21: an export drops no link for an unresolved name.  Role export: every
\* (role, feature, menu, action) of the mapping has its line, with the four
\* ids and with the name of each listed entity, "" for an id that matches
\* none (the action code likewise).  Package export: every (package,
\* feature) pair has its line, whether or not the package and the feature
\* are listed
C21_ExportKeepsUnresolved ==
    /\ hPc = "exported" =>
           \A q \in Quads(hMap) :
               \E i \in DOMAIN ExportedData :
                   LET c == LineCells(ExportedData[i])
                   IN  /\ <<c[1], c[3], c[5], c[7]>> = q
                       /\ c[2] = NameOrEmpty(hArgs.lists.roles, q[1])
                       /\ c[4] = NameOrEmpty(hArgs.lists.features, q[2])
                       /\ c[6] = NameOrEmpty(hArgs.lists.menus, q[3])
                       /\ c[8] = NameOrEmpty(hArgs.lists.perms, q[4])
                       /\ c[9] = CodeOrEmpty(hArgs.lists.perms, q[4])
    /\ hPc = "pexported" =>
           \A k \in DOMAIN hMap.mapping : \A f \in hMap.mapping[k] :
               \E i \in DOMAIN ExportedData :
                   LET c == LineCells(ExportedData[i])
                   IN  /\ c[1] = k /\ c[3] = f
                       /\ c[2] = NameOrEmpty(hMap.packages, k)
                       /\ c[4] = NameOrEmpty(hMap.features, f)

\* a Role export of a link whose role is not listed and whose feature is
\* listed
C21_Witness ==
    /\ hPc = "exported"
    /\ \E q \in Quads(hMap) :
           /\ NameOrEmpty(hArgs.lists.roles, q[1]) = ""
           /\ NameOrEmpty(hArgs.lists.features, q[2]) # ""
           /\ \E i \in DOMAIN ExportedData :
                  LET c == LineCells(ExportedData[i])
                  IN  <<c[1], c[2], c[3], c[5], c[7]>>
                          = <<q[1], "", q[2], q[3], q[4]>>

\* C29 as stated: for every list of fields without a line break, parseLine
\* of the esc-quoted fields joined by commas is the list of fields
C29_QuoteRoundTrip ==
    hPc = "parsed" => hOut.cols = hArgs.fields

\* C29 for a list of at least one field
C29_QuoteRoundTripNonEmpty ==
    (hPc = "parsed" /\ hArgs.fields # <<>>) => hOut.cols = hArgs.fields

\* two fields, one with a comma and one with a double quote
C29_Witness ==
    /\ hPc = "parsed"
    /\ Len(hArgs.fields) = 2
    /\ \E i \in DOMAIN hArgs.fields[1] : hArgs.fields[1][i] = ","
    /\ \E i \in DOMAIN hArgs.fields[2] : hArgs.fields[2][i] = "\""
    /\ hOut.cols = hArgs.fields

\* C30: the import of the file exported from a mapping with a non-empty
\* action set commits the mapping of exactly its (role, feature, menu,
\* action) quadruples: every non-empty action set is back unchanged, and
\* roles without features, features without menus and menus with an empty
\* action set are absent
C30_ExportImport ==
    (hPc = "reimported" /\ Quads(hMap) # {}) =>
        /\ hOut.committed
        /\ Quads(hOut.mapping) = Quads(hMap)
        /\ \A key \in PathKeys(hOut.mapping) :
               \E q \in Quads(hMap) : SubSeq(q, 1, Len(key)) = key
        /\ \A key \in PathKeys(hMap) :
               (Len(key) = 3 /\ hMap[key[1]][key[2]][key[3]] # {}) =>
                   /\ key \in PathKeys(hOut.mapping)
                   /\ hOut.mapping[key[1]][key[2]][key[3]]
                          = hMap[key[1]][key[2]][key[3]]

\* a round trip of a mapping with a role without features, a menu with an
\* empty action set and a menu with two actions
C30_Witness ==
    /\ hPc = "reimported"
    /\ hOut.committed
    /\ \E rid \in DOMAIN hMap : hMap[rid] = EmptyObj
    /\ \E rid \in DOMAIN hMap : \E fid \in DOMAIN hMap[rid] :
           \E mid \in DOMAIN hMap[rid][fid] : hMap[rid][fid][mid] = {}
    /\ \E q \in Quads(hOut.mapping) :
           Cardinality(hOut.mapping[q[1]][q[2]][q[3]]) = 2
    /\ DOMAIN hOut.mapping # DOMAIN hMap

\* a step of the Package admin in which a mapper gesture commits a mapping
MapperStep ==
    /\ PkgQuiet
    /\ pkgMapping' # pkgMapping
    /\ packages' = packages
    /\ pkgFeatures' = pkgFeatures
    /\ pkgReading' = pkgReading

-----------------------------------------------------------------------------
(* The mappings as objects in memory.  A mapping is a tree of JS objects   *)
(* with Sets at the leaves; two mappings may share an object or a Set.  The *)
(* heap is a sequence of cells, an address is an index of it: an object    *)
(* cell holds key -> address, a Set cell holds its members.  Cells are     *)
(* only ever added (no collection is modelled).                            *)

HObj(f) == [kind |-> "obj", f |-> f, s |-> {}]
HSet(s) == [kind |-> "set", f |-> EmptyObj, s |-> s]

\* a new cell; its address is Len(h) + 1
HNew(h, cell) == Append(h, cell)

\* o[k] = v
HPut(h, o, k, v) == [h EXCEPT ![o].f = Put(@, k, v)]

\* delete o[k]
HDelete(h, o, k) == [h EXCEPT ![o].f = Del(@, k)]

\* o[k] ??= <a new cell>
HEnsure(h, o, k, cell) ==
    IF Has(h[o].f, k) THEN h ELSE HPut(HNew(h, cell), o, k, Len(h) + 1)

\* set.add(x), set.delete(x)
HSetAdd(h, o, x) == [h EXCEPT ![o].s = @ \cup {x}]
HSetDelete(h, o, x) == [h EXCEPT ![o].s = @ \ {x}]

\* what a reader sees from address o: the keys and the set contents, d
\* levels of objects above the Sets
RECURSIVE Reify(_, _, _)
Reify(h, o, d) ==
    IF d = 0 THEN h[o].s
    ELSE [k \in DOMAIN h[o].f |-> Reify(h, h[o].f[k], d - 1)]

\* the cells reachable from address o
RECURSIVE Reach(_, _, _)
Reach(h, o, d) ==
    IF d = 0 THEN {o}
    ELSE {o} \cup UNION {Reach(h, h[o].f[k], d - 1) : k \in DOMAIN h[o].f}

\* a mapping value built from new cells only
RECURSIVE HStore(_, _, _)
RECURSIVE HStoreFields(_, _, _, _, _)
HStore(h, v, d) ==
    IF d = 0 THEN [h |-> HNew(h, HSet(v)), a |-> Len(h) + 1]
    ELSE LET r == HStoreFields(h, v, d, DOMAIN v, EmptyObj)
         IN  [h |-> HNew(r.h, HObj(r.f)), a |-> Len(r.h) + 1]
HStoreFields(h, v, d, keys, f) ==
    IF keys = {} THEN [h |-> h, f |-> f]
    ELSE LET k == CHOOSE x \in keys : TRUE
             c == HStore(h, v[k], d - 1)
         IN  HStoreFields(c.h, v, d, keys \ {k}, Put(f, k, c.a))

\* a copy of the cell at o whose d levels below are copied as well:
\* d = 0 is { ...prev } or new Set(v), sharing whatever the cell refers to
RECURSIVE HCopy(_, _, _)
RECURSIVE HCopyFields(_, _, _, _, _)
HCopy(h, o, d) ==
    IF d = 0 THEN [h |-> HNew(h, h[o]), a |-> Len(h) + 1]
    ELSE LET r == HCopyFields(h, o, d, DOMAIN h[o].f, EmptyObj)
         IN  [h |-> HNew(r.h, HObj(r.f)), a |-> Len(r.h) + 1]
HCopyFields(h, o, d, keys, f) ==
    IF keys = {} THEN [h |-> h, f |-> f]
    ELSE LET k == CHOOSE x \in keys : TRUE
             c == HCopy(h, h[o].f[k], d - 1)
         IN  HCopyFields(c.h, o, d, keys \ {k}, Put(f, k, c.a))

\* variant: only the role level and the feature level are copied, the
\* by-menu objects and the Sets are shared with the source
cloneMappingH_shallow(h, m) == HCopy(h, m, 1)

\* cloneMapping(m): new objects at the three levels, new Set(Array.from(set))
cloneMappingH(h, m) == HCopy(h, m, 3)

\* cloneMap(map): a new object, new Set(v) for every key
cloneMapH(h, map) == HCopy(h, map, 1)

\* o[k] ??= <a new cell> for every k of keys
RECURSIVE HEnsureAll(_, _, _, _)
HEnsureAll(h, o, keys, cell) ==
    IF keys = {} THEN h
    ELSE LET k == CHOOSE x \in keys : TRUE
         IN  HEnsureAll(HEnsure(h, o, k, cell), o, keys \ {k}, cell)

\* the updater of the "ensure roles keys" effect: { ...prev }, the missing
\* keys added, the orphaned keys deleted
ensureRolesKeysH(h, prev, rs) ==
    LET ids == RoleIdsOf(rs)
        c == HCopy(h, prev, 0)
        h1 == HEnsureAll(c.h, c.a, ids, HObj(EmptyObj))
    IN  [h |-> [h1 EXCEPT ![c.a].f = [k \in {x \in DOMAIN @ : x \in ids} |-> @[k]]],
         a |-> c.a]

toggleH(h, prev, roleId, featureId, mid, permId) ==
    LET c == cloneMappingH(h, prev)
        next == c.a
        rid == Str(roleId)
        fid == Str(featureId)
        key == Str(permId)
        h1 == HEnsure(c.h, next, rid, HObj(EmptyObj))
        byF == h1[next].f[rid]
        h2 == HEnsure(h1, byF, fid, HObj(EmptyObj))
        byM == h2[byF].f[fid]
        h3 == HNew(h2, HSet(IF Has(h2[byM].f, mid) THEN h2[h2[byM].f[mid]].s
                            ELSE {}))
        set == Len(h3)
        h4 == IF key \in h3[set].s THEN HSetDelete(h3, set, key)
              ELSE HSetAdd(h3, set, key)
    IN  [h |-> HPut(h4, byM, mid, set), a |-> next]

removeFeatureFromRoleH(h, prev, roleId, featureId) ==
    LET c == cloneMappingH(h, prev)
        rid == Str(roleId)
    IN  [h |-> IF Has(c.h[c.a].f, rid)
               THEN HDelete(c.h, c.h[c.a].f[rid], Str(featureId))
               ELSE c.h,
         a |-> c.a]

removeMenuFromFeatureH(h, prev, roleId, featureId, mid) ==
    LET c == cloneMappingH(h, prev)
        rid == Str(roleId)
        fid == Str(featureId)
        top == c.h[c.a].f
    IN  [h |-> IF /\ Has(top, rid)
                  /\ Has(c.h[top[rid]].f, fid)
                  /\ Has(c.h[c.h[top[rid]].f[fid]].f, mid)
               THEN HDelete(c.h, c.h[top[rid]].f[fid], mid)
               ELSE c.h,
         a |-> c.a]

clearRoleH(h, prev, roleId) ==
    LET c == cloneMappingH(h, prev)
    IN  [h |-> HPut(HNew(c.h, HObj(EmptyObj)), c.a, Str(roleId), Len(c.h) + 1),
         a |-> c.a]

handleRoleDropH(h, prev, roleId, fid) ==
    LET c == cloneMappingH(h, prev)
        rid == Str(roleId)
        h1 == HEnsure(c.h, c.a, rid, HObj(EmptyObj))
    IN  [h |-> HEnsure(h1, h1[c.a].f[rid], fid, HObj(EmptyObj)), a |-> c.a]

handleFeatureMenuDropH(h, prev, roleId, featureId, mid) ==
    LET c == cloneMappingH(h, prev)
        rid == Str(roleId)
        fid == Str(featureId)
        h1 == HEnsure(c.h, c.a, rid, HObj(EmptyObj))
        byF == h1[c.a].f[rid]
        h2 == HEnsure(h1, byF, fid, HObj(EmptyObj))
    IN  [h |-> HEnsure(h2, h2[byF].f[fid], mid, HSet({})), a |-> c.a]

\* the inner loop of the rekey merge: the Sets of byMenu added to the Sets
\* of target, menu by menu
RECURSIVE MergeMenusH(_, _, _, _)
MergeMenusH(h, target, byMenu, mids) ==
    IF mids = {} THEN h
    ELSE LET mid == CHOOSE x \in mids : TRUE
             set == h[byMenu].f[mid]
             found == Has(h[target].f, mid)
             h1 == IF found THEN h ELSE HNew(h, HSet({}))
             existing == IF found THEN h[target].f[mid] ELSE Len(h1)
             h2 == [h1 EXCEPT ![existing].s = @ \cup h1[set].s]
         IN  MergeMenusH(HPut(h2, target, mid, existing), target, byMenu,
                         mids \ {mid})

\* the outer loop of the rekey merge, feature by feature
RECURSIVE MergeEntryH(_, _, _, _)
MergeEntryH(h, newEntry, oldEntry, fids) ==
    IF fids = {} THEN h
    ELSE LET fid == CHOOSE x \in fids : TRUE
             h1 == HEnsure(h, newEntry, fid, HObj(EmptyObj))
             byMenu == h1[oldEntry].f[fid]
         IN  MergeEntryH(MergeMenusH(h1, h1[newEntry].f[fid], byMenu,
                                     DOMAIN h1[byMenu].f),
                         newEntry, oldEntry, fids \ {fid})

handleRoleBeforeSaveH(h, prev, draftId, editingId) ==
    IF editingId = -1 \/ draftId = editingId THEN [h |-> h, a |-> prev]
    ELSE LET oldKey == Str(editingId)
             newKey == Str(draftId)
             c == cloneMappingH(h, prev)
             next == c.a
             top == c.h[next].f
         IN  IF oldKey = newKey THEN [h |-> h, a |-> prev]
             ELSE IF ~Has(top, oldKey)
                  THEN [h |-> HEnsure(c.h, next, newKey, HObj(EmptyObj)),
                        a |-> next]
             ELSE IF Has(top, newKey)
                  THEN [h |-> HDelete(MergeEntryH(c.h, top[newKey], top[oldKey],
                                          DOMAIN c.h[top[oldKey]].f),
                                      next, oldKey),
                        a |-> next]
                  ELSE [h |-> HDelete(HPut(c.h, next, newKey, top[oldKey]),
                                      next, oldKey),
                        a |-> next]

\* the updater of the "ensure package keys" effect
ensurePackageKeysH(h, prev, pkgs) ==
    LET ids == {Str(pkgs[i].id) : i \in DOMAIN pkgs}
        c == HCopy(h, prev, 0)
        h1 == HEnsureAll(c.h, c.a, ids, HSet({}))
    IN  [h |-> [h1 EXCEPT ![c.a].f = [k \in {x \in DOMAIN @ : x \in ids} |-> @[k]]],
         a |-> c.a]

\* the updater of the "clean up" effect: a new object, a new Set per key
cleanupFeaturesH(h, prev, feats) ==
    HStore(h, cleanupFeatures(Reify(h, prev, 1), feats), 1)

handlePackageDropH(h, prev, pkgId, featureId) ==
    LET c == cloneMapH(h, prev)
        k == Str(pkgId)
        h1 == HEnsure(c.h, c.a, k, HSet({}))
    IN  [h |-> HSetAdd(h1, h1[c.a].f[k], featureId), a |-> c.a]

removeMappingH(h, prev, pkgId, featureId) ==
    LET c == cloneMapH(h, prev)
        k == Str(pkgId)
    IN  [h |-> IF Has(c.h[c.a].f, k)
               THEN HSetDelete(c.h, c.h[c.a].f[k], featureId)
               ELSE c.h,
         a |-> c.a]

clearPackageH(h, prev, pkgId) ==
    LET c == cloneMapH(h, prev)
    IN  [h |-> HPut(HNew(c.h, HSet({})), c.a, Str(pkgId), Len(c.h) + 1),
         a |-> c.a]

-----------------------------------------------------------------------------
(* Harness of the heap: a first snapshot is built, then MaxOps mapping     *)
(* operations are committed one after the other, each applied to the       *)
(* latest snapshot as React hands it to the updater.  Every snapshot is    *)
(* remembered with what a reader saw in it when it was committed.          *)

MaxOps == 2

\* first snapshots of the Role scenario: the action sets are {} or {"5"} and
\* feature "4", where present, has no menu
HHeapMaps ==
    {m \in HMaps :
        \A rid \in DOMAIN m : \A fid \in DOMAIN m[rid] :
            /\ fid = "4" => m[rid][fid] = EmptyObj
            /\ \A mid \in DOMAIN m[rid][fid] : m[rid][fid][mid] \subseteq {"5"}}

HHeapLists == {<<>>, <<Entity(1, "")>>, <<Entity(2, ""), Entity(3, "")>>}

HRoleSteps == {"r" \o Str(i) : i \in 0..(MaxOps - 1)}
HPkgSteps == {"p" \o Str(i) : i \in 0..(MaxOps - 1)}
HHeapPcs == {"r" \o Str(i) : i \in 0..MaxOps} \cup {"p" \o Str(i) : i \in 0..MaxOps}

NextPc(pc) ==
    CHOOSE q \in HHeapPcs :
        \E i \in 0..(MaxOps - 1) :
            \/ pc = "r" \o Str(i) /\ q = "r" \o Str(i + 1)
            \/ pc = "p" \o Str(i) /\ q = "p" \o Str(i + 1)

\* levels of objects above the Sets in the scenario at hand
HDepth == IF hPc \in {"r" \o Str(i) : i \in 0..MaxOps} THEN 3 ELSE 1

\* the latest snapshot and what a reader sees in it
HCur == hOut.snaps[Len(hOut.snaps)]
HVal == Reify(hOut.h, HCur, HDepth)

HeapInit ==
    /\ RoleIdle
    /\ PkgIdle
    /\ hArgs = NoArgs
    /\ hRaw = JNull
    /\ \/ hPc = "r0" /\ hMap \in HHeapMaps
       \/ hPc = "p0" /\ hMap \in HPkgMaps
    /\ LET s == HStore(<<>>, hMap, IF hPc = "r0" THEN 3 ELSE 1)
       IN  hOut = [h |-> s.h, snaps |-> <<s.a>>, vals |-> <<hMap>>,
                   want |-> hMap]

\* setMapping(updater) / onChange(next): res is the heap and the address the
\* updater returned, want the mapping of the value-level operator
HCommit(res, want, op) ==
    /\ hOut' = [h |-> res.h,
                snaps |-> Append(hOut.snaps, res.a),
                vals |-> Append(hOut.vals, Reify(res.h, res.a, HDepth)),
                want |-> want]
    /\ hArgs' = [op |-> op]
    /\ hPc' = NextPc(hPc)
    /\ UNCHANGED <<hMap, hRaw>>
    /\ UNCHANGED <<rvars, pvars>>

HeapToggle ==
    /\ hPc \in HRoleSteps
    /\ \E r \in HRoleIds, f \in HFeatIds, m \in HMenuArgs :
        HCommit(toggleH(hOut.h, HCur, r, f, m, 5), toggle(HVal, r, f, m, 5),
                "toggle")

HeapRoleDrop ==
    /\ hPc \in HRoleSteps
    /\ \E r \in HRoleIds, f \in HFeatKeys :
        HCommit(handleRoleDropH(hOut.h, HCur, r, f), handleRoleDrop(HVal, r, f),
                "roleDrop")

HeapFeatureMenuDrop ==
    /\ hPc \in HRoleSteps
    /\ \E r \in HRoleIds, f \in HFeatIds, m \in HMenuArgs :
        HCommit(handleFeatureMenuDropH(hOut.h, HCur, r, f, m),
                handleFeatureMenuDrop(HVal, r, f, m), "menuDrop")

HeapRemoveFeature ==
    /\ hPc \in HRoleSteps
    /\ \E r \in HRoleIds, f \in HFeatIds :
        HCommit(removeFeatureFromRoleH(hOut.h, HCur, r, f),
                removeFeatureFromRole(HVal, r, f), "removeFeature")

HeapRemoveMenu ==
    /\ hPc \in HRoleSteps
    /\ \E r \in HRoleIds, f \in HFeatIds, m \in HMenuArgs :
        HCommit(removeMenuFromFeatureH(hOut.h, HCur, r, f, m),
                removeMenuFromFeature(HVal, r, f, m), "removeMenu")

HeapClearRole ==
    /\ hPc \in HRoleSteps
    /\ \E r \in HRoleIds :
        HCommit(clearRoleH(hOut.h, HCur, r), clearRole(HVal, r), "clearRole")

HeapRekey ==
    /\ hPc \in HRoleSteps
    /\ \E old \in HRoleIds \cup {-1}, new \in HRoleIds :
        HCommit(handleRoleBeforeSaveH(hOut.h, HCur, new, old),
                handleRoleBeforeSave(HVal, new, old), "rekey")

HeapEnsureRoles ==
    /\ hPc \in HRoleSteps
    /\ \E rs \in HHeapLists :
        HCommit(ensureRolesKeysH(hOut.h, HCur, rs), ensureRolesKeys(HVal, rs),
                "ensureRoles")

HeapPackageDrop ==
    /\ hPc \in HPkgSteps
    /\ \E k \in HRoleIds, f \in HFeatKeys :
        HCommit(handlePackageDropH(hOut.h, HCur, k, f),
                handlePackageDrop(HVal, k, f), "packageDrop")

HeapRemoveMapping ==
    /\ hPc \in HPkgSteps
    /\ \E k \in HRoleIds, f \in HFeatKeys :
        HCommit(removeMappingH(hOut.h, HCur, k, f), removeMapping(HVal, k, f),
                "removeMapping")

HeapClearPackage ==
    /\ hPc \in HPkgSteps
    /\ \E k \in HRoleIds :
        HCommit(clearPackageH(hOut.h, HCur, k), clearPackage(HVal, k),
                "clearPackage")

HeapEnsurePackages ==
    /\ hPc \in HPkgSteps
    /\ \E pkgs \in HHeapLists :
        HCommit(ensurePackageKeysH(hOut.h, HCur, pkgs),
                ensurePackageKeys(HVal, pkgs), "ensurePackages")

HeapCleanupFeatures ==
    /\ hPc \in HPkgSteps
    /\ \E feats \in HHeapLists :
        HCommit(cleanupFeaturesH(hOut.h, HCur, feats),
                cleanupFeatures(HVal, feats), "cleanupFeatures")

HeapNext ==
    \/ HeapToggle
    \/ HeapRoleDrop
    \/ HeapFeatureMenuDrop
    \/ HeapRemoveFeature
    \/ HeapRemoveMenu
    \/ HeapClearRole
    \/ HeapRekey
    \/ HeapEnsureRoles
    \/ HeapPackageDrop
    \/ HeapRemoveMapping
    \/ HeapClearPackage
    \/ HeapEnsurePackages
    \/ HeapCleanupFeatures

SpecHeap == HeapInit /\ [][HeapNext]_vars

\* the heap operations compute the mappings of the value-level operators
HeapAgrees == hPc \in HHeapPcs => hOut.vals[Len(hOut.vals)] = hOut.want

\* C27: snapshot immutability: after any sequence of mapping operations
\* (toggle, feature drop, menu drop, remove feature, remove menu, clear
\* role, rekey, reconciliation, package drop, remove and clear), a reader
\* that holds any earlier snapshot sees in it the keys and the set contents
\* it saw when that snapshot was committed, and no cell that existed then
\* and is reachable from it has changed.
C27_SnapshotsUnchanged ==
    hPc \in HHeapPcs =>
        \A i \in DOMAIN hOut.snaps :
            Reify(hOut.h, hOut.snaps[i], HDepth) = hOut.vals[i]

\* two operations were committed, the three snapshots all differ for a
\* reader, and the first two share a cell (a reconciliation copied the
\* mapping object only) that the last operation had to leave alone
C27_Witness ==
    /\ hPc \in {"r" \o Str(MaxOps), "p" \o Str(MaxOps)}
    /\ hOut.vals[1] # hOut.vals[2]
    /\ hOut.vals[2] # hOut.vals[3]
    /\ hOut.vals[1] # hOut.vals[3]
    /\ Reach(hOut.h, hOut.snaps[1], HDepth)
         \cap Reach(hOut.h, hOut.snaps[2], HDepth) # {}
    /\ \E k \in DOMAIN hOut.vals[1] : hOut.vals[1][k] # IF HDepth = 1 THEN {} ELSE EmptyObj

-----------------------------------------------------------------------------
(* Claims about drops, reconciliation, the CRUD editor and reloads *)

\* the role entry of a mapping, the empty map when the role has no key
EntryOf(m, rid) == IF Has(m, rid) THEN m[rid] ELSE EmptyObj

\* C37: a feature dropped on a role where it is absent is created with an
\* empty menu map, a menu dropped on a feature where it is absent is created
\* with an empty action set; a feature or menu already present keeps its
\* menus and action sets; the entries of other roles and other features are
\* unchanged; and the same drop applied again changes nothing.
C37_DropsIdempotent ==
    /\ hPc = "roleDrop" =>
        LET rid == Str(hArgs.r)
            fid == Str(hArgs.f)
            old == EntryOf(hMap, rid)
        IN  /\ DOMAIN hOut = DOMAIN hMap \cup {rid}
            /\ \A k \in DOMAIN hMap : k # rid => hOut[k] = hMap[k]
            /\ DOMAIN hOut[rid] = DOMAIN old \cup {fid}
            /\ \A k \in DOMAIN old : k # fid => hOut[rid][k] = old[k]
            /\ hOut[rid][fid] = IF Has(old, fid) THEN old[fid] ELSE EmptyObj
            /\ handleRoleDrop(hOut, hArgs.r, fid) = hOut
    /\ hPc = "menuDrop" =>
        LET rid == Str(hArgs.r)
            fid == Str(hArgs.f)
            old == EntryOf(hMap, rid)
            oldF == EntryOf(old, fid)
        IN  /\ DOMAIN hOut = DOMAIN hMap \cup {rid}
            /\ \A k \in DOMAIN hMap : k # rid => hOut[k] = hMap[k]
            /\ DOMAIN hOut[rid] = DOMAIN old \cup {fid}
            /\ \A k \in DOMAIN old : k # fid => hOut[rid][k] = old[k]
            /\ DOMAIN hOut[rid][fid] = DOMAIN oldF \cup {hArgs.m}
            /\ \A k \in DOMAIN oldF : k # hArgs.m => hOut[rid][fid][k] = oldF[k]
            /\ hOut[rid][fid][hArgs.m] =
                   IF Has(oldF, hArgs.m) THEN oldF[hArgs.m] ELSE {}
            /\ handleFeatureMenuDrop(hOut, hArgs.r, hArgs.f, hArgs.m) = hOut

\* a feature that holds a menu with actions has been dropped again on its
\* role, which also holds another feature
C37_Witness ==
    /\ hPc = "roleDrop"
    /\ Has(hMap, Str(hArgs.r))
    /\ Has(hMap[Str(hArgs.r)], Str(hArgs.f))
    /\ \E mid \in DOMAIN hMap[Str(hArgs.r)][Str(hArgs.f)] :
           hMap[Str(hArgs.r)][Str(hArgs.f)][mid] # {}
    /\ Cardinality(DOMAIN hMap[Str(hArgs.r)]) = 2
    /\ hOut = hMap

\* C38: the reconciliation pass leaves the entry of every key that is both
\* in the mapping and in the id list as it was, and a second pass with the
\* same id list yields the mapping of the first (roles and packages).
C38_ReconcileKeeps ==
    /\ hPc = "ensureRoles" =>
        /\ \A k \in DOMAIN hMap :
               k \in RoleIdsOf(hArgs.list) => Has(hOut, k) /\ hOut[k] = hMap[k]
        /\ ensureRolesKeys(hOut, hArgs.list) = hOut
    /\ hPc = "ensurePackages" =>
        /\ \A k \in DOMAIN hMap :
               k \in RoleIdsOf(hArgs.list) => Has(hOut, k) /\ hOut[k] = hMap[k]
        /\ ensurePackageKeys(hOut, hArgs.list) = hOut

\* a pass over a mapping with a surviving role that holds actions, a role
\* to drop and a listed role without a key
C38_Witness ==
    /\ hPc = "ensureRoles"
    /\ \E k \in DOMAIN hMap \cap DOMAIN hOut : \E q \in Quads(hMap) : q[1] = k
    /\ (DOMAIN hMap) \ (DOMAIN hOut) # {}
    /\ (DOMAIN hOut) \ (DOMAIN hMap) # {}

-----------------------------------------------------------------------------
(* The CrudList editor on its own, over the Roles list: hMap is the items  *)
(* list of the owner, hOut the editor's editingId and draft.               *)

MaxCrudItems == 3
MaxCrudId == 3
CrudNames == {"", "x"}

CrudInit ==
    /\ RoleIdle
    /\ PkgIdle
    /\ hPc = "crud"
    /\ hMap = defaultRoles
    /\ hOut = CrudClosed
    /\ hArgs = NoArgs
    /\ hRaw = JNull

\* Add button (shown while the editor is closed)
startAdd ==
    /\ hPc = "crud"
    /\ ~hOut.open
    /\ Len(hMap) < MaxCrudItems
    /\ hOut' = CrudEditing(-1, createEmptyRole(nextId(hMap)))
    /\ hArgs' = [op |-> "startAdd"]
    /\ UNCHANGED <<hPc, hMap, hRaw, rvars, pvars>>

\* Edit button of an item
startEdit ==
    /\ hPc = "crud"
    /\ \E id \in IdsOf(hMap) : hOut' = CrudEditing(id, FindById(hMap, id))
    /\ hArgs' = [op |-> "startEdit"]
    /\ UNCHANGED <<hPc, hMap, hRaw, rvars, pvars>>

\* a field of the form is changed: the id or the name of the draft
updateField ==
    /\ hPc = "crud"
    /\ hOut.open
    /\ \/ \E v \in 1..MaxCrudId :
            /\ v # hOut.draft.id
            /\ hOut' = [hOut EXCEPT !.draft.id = v]
       \/ \E v \in CrudNames :
            /\ v # hOut.draft.name
            /\ hOut' = [hOut EXCEPT !.draft.name = v]
    /\ hArgs' = [op |-> "updateField"]
    /\ UNCHANGED <<hPc, hMap, hRaw, rvars, pvars>>

\* Save button
save ==
    /\ hPc = "crud"
    /\ hOut.open
    /\ hOut.draft.id <= MaxCrudId
    /\ hMap' = CrudSave(hMap, hOut.editingId, hOut.draft)
    /\ hOut' = CrudClosed
    /\ hArgs' = [op |-> "save"]
    /\ UNCHANGED <<hPc, hRaw, rvars, pvars>>

\* Cancel button
cancel ==
    /\ hPc = "crud"
    /\ hOut.open
    /\ hOut' = CrudClosed
    /\ hArgs' = [op |-> "cancel"]
    /\ UNCHANGED <<hPc, hMap, hRaw, rvars, pvars>>

\* Delete button of an item
remove ==
    /\ hPc = "crud"
    /\ \E id \in IdsOf(hMap) :
        /\ hMap' = CrudRemove(hMap, id)
        /\ hOut' = IF hOut.open /\ hOut.editingId = id THEN CrudClosed ELSE hOut
    /\ hArgs' = [op |-> "remove"]
    /\ UNCHANGED <<hPc, hRaw, rvars, pvars>>

CrudNext ==
    \/ startAdd
    \/ startEdit
    \/ updateField
    \/ save
    \/ cancel
    \/ remove

SpecCrud == CrudInit /\ [][CrudNext]_vars

\* C39: saving an edit of the entity with id e replaces exactly one record,
\* the one with id e, by the draft with its id forced to e; every other
\* record, the order and the length of the list are unchanged, whatever id
\* the draft carries.
C39_EditSaveFrame ==
    [][(save /\ hOut.editingId # -1) =>
          /\ Len(hMap') = Len(hMap)
          /\ \E i \in DOMAIN hMap :
                /\ hMap[i].id = hOut.editingId
                /\ hMap'[i] = [hOut.draft EXCEPT !.id = hOut.editingId]
                /\ \A j \in DOMAIN hMap : j # i => hMap'[j] = hMap[j]]_vars

\* the same for lists in which the edited id is the id of one record: the
\* record is replaced by the draft with the id kept, the others, the order
\* and the length are unchanged
C39_EditSaveFrameUnique ==
    [][(/\ save
        /\ hOut.editingId # -1
        /\ Cardinality({i \in DOMAIN hMap : hMap[i].id = hOut.editingId}) = 1) =>
          /\ Len(hMap') = Len(hMap)
          /\ \A i \in DOMAIN hMap :
                hMap'[i] = IF hMap[i].id = hOut.editingId
                           THEN [hOut.draft EXCEPT !.id = hOut.editingId]
                           ELSE hMap[i]]_vars

-----------------------------------------------------------------------------
(* The Role admin with its Menus and Actions editors; the Roles editor is  *)
(* left closed.  A gesture of a list editor is one step: Add is startAdd   *)
(* and save, Edit is startEdit, a change of the name field and save.  The  *)
(* two editors have no id field.  lastIdEdit remembers a removal.          *)

MaxListItems == 1

createEmptyMenu(id) == Entity(id, "")
createEmptyPermissionAction(id) == Entity(id, "")

\* the name typed into the name field of an edited item
ListEditName == "Read"

\* setMenus(next): no effect has menus among its dependencies
SetMenus(next, note) ==
    /\ menus' = next
    /\ lastIdEdit' = note
    /\ UNCHANGED <<roles, perms, mapping, stored, crud, reading, rolesDirty,
                   persistDirty, hvars, pvars>>

\* setPerms(next): the persist effect is due
SetPerms(next, note) ==
    /\ perms' = next
    /\ persistDirty' = TRUE
    /\ lastIdEdit' = note
    /\ UNCHANGED <<roles, menus, mapping, stored, crud, reading, rolesDirty,
                   hvars, pvars>>

MenuAdd ==
    /\ Quiet
    /\ Len(menus) < MaxListItems
    /\ SetMenus(CrudSave(menus, -1, createEmptyMenu(nextId(menus))), NoIdEdit)

MenuEdit ==
    /\ Quiet
    /\ \E id \in IdsOf(menus) :
        /\ FindById(menus, id).name # ListEditName
        /\ SetMenus(CrudSave(menus, id,
                        [FindById(menus, id) EXCEPT !.name = ListEditName]),
                    NoIdEdit)

\* variant: the removal of a menu also deletes its key under every feature
MenuRemove_prune ==
    /\ Quiet
    /\ \E id \in IdsOf(menus) :
        /\ menus' = CrudRemove(menus, id)
        /\ mapping' = [rid \in DOMAIN mapping |->
                          [fid \in DOMAIN mapping[rid] |->
                              Del(mapping[rid][fid], Str(id))]]
        /\ lastIdEdit' = [kind |-> "removed", list |-> "menus", id |-> id]
    /\ UNCHANGED <<roles, perms, stored, crud, reading, rolesDirty,
                   persistDirty, hvars, pvars>>

MenuRemove ==
    /\ Quiet
    /\ \E id \in IdsOf(menus) :
        SetMenus(CrudRemove(menus, id),
                 [kind |-> "removed", list |-> "menus", id |-> id])

ActionAdd ==
    /\ Quiet
    /\ Len(perms) < MaxListItems
    /\ SetPerms(CrudSave(perms, -1, createEmptyPermissionAction(nextId(perms))),
                NoIdEdit)

ActionEdit ==
    /\ Quiet
    /\ \E id \in IdsOf(perms) :
        /\ FindById(perms, id).name # ListEditName
        /\ SetPerms(CrudSave(perms, id,
                        [FindById(perms, id) EXCEPT !.name = ListEditName]),
                    NoIdEdit)

ActionRemove ==
    /\ Quiet
    /\ \E id \in IdsOf(perms) :
        SetPerms(CrudRemove(perms, id),
                 [kind |-> "removed", list |-> "perms", id |-> id])

ListsNext ==
    \/ FlushEffects
    \/ Toggle
    \/ RemoveFeature
    \/ RemoveMenu
    \/ ClearRole
    \/ RoleDrop
    \/ FeatureMenuDrop
    \/ PickFile
    \/ ImportLoaded
    \/ MenuAdd
    \/ MenuEdit
    \/ MenuRemove
    \/ ActionAdd
    \/ ActionEdit
    \/ ActionRemove

SpecLists == RoleInit /\ [][ListsNext]_vars


\* the lists of the Role admin, as the export reads them
RoleLists ==
    [roles |-> roles, features |-> features, menus |-> menus, perms |-> perms]

\* the lines an export of the current state writes for the menu entry of a
\* link (the innermost loop of exportCSV)
ExportedNow(q) ==
    MenuRows(q[1], q[2], q[3], mapping[q[1]][q[2]][q[3]], RoleLists, HNow)

\* C36: a step that adds, edits or removes a Menu or an Action leaves the
\* mapping as it was and makes no reconciliation due, and the persist effect
\* that follows an Action change leaves it as well; the mapping changes only
\* in a mapping operation, in the commit of an import or in the
\* reconciliation after a Roles change.  So a link whose menu or action was
\* deleted stays, and an export writes its rows (one per action of the
\* menu entry) with the empty string found for the name.
C36_ListEditsKeepMapping ==
    [][/\ (menus' # menus \/ perms' # perms) =>
              /\ mapping' = mapping
              /\ rolesDirty' = rolesDirty
       /\ (FlushEffects /\ ~rolesDirty) => mapping' = mapping
       /\ mapping' # mapping =>
              \/ Toggle \/ RemoveFeature \/ RemoveMenu \/ ClearRole
              \/ RoleDrop \/ FeatureMenuDrop
              \/ ImportLoaded
              \/ (FlushEffects /\ rolesDirty)
       /\ \A q \in Quads(mapping) :
              /\ Len(ExportedNow(q)) = Cardinality(mapping[q[1]][q[2]][q[3]])
              /\ q[3] \notin RoleIdsOf(menus) =>
                     FieldOfFound(menus, q[3], "name") = ""
              /\ q[4] \notin RoleIdsOf(perms) =>
                     /\ FieldOfFound(perms, q[4], "name") = ""
                     /\ FieldOfFound(perms, q[4], "code") = ""]_vars

\* the only action has been removed and the persist effect has run, the
\* menu list is empty as well, and a link of a listed role with that menu
\* and that action is still in the mapping
C36_Witness ==
    /\ Quiet
    /\ lastIdEdit = [kind |-> "removed", list |-> "perms", id |-> 1]
    /\ menus = <<>>
    /\ perms = <<>>
    /\ \E q \in Quads(mapping) :
           q[1] \in RoleIdsOf(roles) /\ q[3] = "1" /\ q[4] = "1"
    /\ stored.kind = "json"
    /\ fromPersistRFMA(stored.v) = mapping


\* the records of a list, as a set
RecordsOf(items) == {items[i] : i \in DOMAIN items}

\* a state of the Package admin in which no effect is due has one key per
\* package and only listed features in its sets
PkgSettled(st) ==
    /\ ensurePackageKeys(st.mapping, st.packages) = st.mapping
    /\ cleanupFeatures(st.mapping, st.features) = st.mapping

\* C31: in a quiescent state with at least one link, importing the exported
\* text leaves the set of Package records and the set of Feature records as
\* they were and, after reconciliation, yields the exported mapping.
C31_PkgExportImport ==
    (/\ hPc = "preimported"
     /\ PkgSettled(hMap)
     /\ \E k \in DOMAIN hMap.mapping : hMap.mapping[k] # {}) =>
        /\ hOut.committed
        /\ RecordsOf(hOut.packages) = RecordsOf(hMap.packages)
        /\ RecordsOf(hOut.features) = RecordsOf(hMap.features)
        /\ hOut.mapping = hMap.mapping

\* the same for states in which no name of a linked package or feature
\* begins or ends with a blank
C31_PkgExportImportTrimmed ==
    (/\ hPc = "preimported"
     /\ PkgSettled(hMap)
     /\ \E k \in DOMAIN hMap.mapping : hMap.mapping[k] # {}
     /\ \A i \in DOMAIN hMap.packages :
            Trim(Chars(hMap.packages[i].name)) = Chars(hMap.packages[i].name)) =>
        /\ hOut.committed
        /\ RecordsOf(hOut.packages) = RecordsOf(hMap.packages)
        /\ RecordsOf(hOut.features) = RecordsOf(hMap.features)
        /\ hOut.mapping = hMap.mapping


\* the state of the Package admin after a reload with the stored item: the
\* initialisers (packages and features from the seed lists, the mapping from
\* the blob) and the effects of the first commit
pkgReload(item) ==
    reconcile([packages |-> defaultPackages,
               features |-> pkgDefaultFeatures,
               mapping |-> pkgInitialMapping(item, defaultPackages)])

\* C33: when no effect is due, the stored blob holds the packages, the
\* features and the encoded mapping of the state, and a reload from that
\* blob restores the same packages, features and mapping.
C33_PkgReload ==
    PkgQuiet =>
        /\ pkgStored.kind = "json"
        /\ pkgStored.v.packages = packages
        /\ pkgStored.v.features = pkgFeatures
        /\ fromPersist(pkgStored.v.mapping) = pkgMapping
        /\ pkgReload(pkgStored).packages = packages
        /\ pkgReload(pkgStored).features = pkgFeatures
        /\ pkgReload(pkgStored).mapping = pkgMapping

\* the blob itself is up to date whenever no effect is due
PkgBlobCurrent ==
    PkgQuiet =>
        /\ pkgStored.kind = "json"
        /\ pkgStored.v.packages = packages
        /\ pkgStored.v.features = pkgFeatures
        /\ fromPersist(pkgStored.v.mapping) = pkgMapping

\* the state of the Role admin's mapping after a reload with the stored
\* item: roles from the seed list, the mapping decoded from the blob, then
\* the "ensure roles keys" effect
roleReload(item) ==
    ensureRolesKeys(initialMapping(item, defaultRoles), defaultRoles)

\* C32: in every state where no effect is due, a reload from the stored
\* blob followed by the initial reconciliation yields the mapping of the
\* state, the entries of roles added by the user included.
C32_RoleReload == Quiet => roleReload(stored) = mapping


\* C34: when a role with a new id is added through the Roles editor, its
\* mapping entry after the reconciliation that follows the save is the
\* empty map.
C34_NewRoleEmpty ==
    [][(RoleSave /\ crud.editingId = -1 /\ crud.draft.id \notin IdsOf(roles)) =>
          ensureRolesKeys(mapping', roles')[Str(crud.draft.id)] = EmptyObj]_vars

-----------------------------------------------------------------------------
(* Either admin page with its effects scheduled: React runs the effects of *)
(* a commit after the commit, so an effect that is due does run.           *)

LiveInit == RoleInit \/ PkgInit

LiveNext ==
    \/ ~RoleIdle /\ RoleNext
    \/ ~PkgIdle /\ PkgNext

SpecLive ==
    /\ LiveInit
    /\ [][LiveNext]_vars
    /\ WF_vars(FlushEffects)
    /\ WF_vars(PkgFlushEffects)

\* the effect runs still to come at most: a reconciliation or clean-up that
\* is due is followed by one more persist
EffectMeasure ==
    (IF rolesDirty THEN 2 ELSE 0) + (IF persistDirty THEN 1 ELSE 0)
    + (IF packagesDirty \/ featuresDirty THEN 2 ELSE 0)
    + (IF pkgPersistDirty THEN 1 ELSE 0)

\* C35: after any operation the effects reach quiescence: while an effect
\* is due every step is an effect run that lowers the count of runs still
\* to come (three at most after one operation), and a state where no effect
\* is due follows.
C35_EffectsSettle ==
    /\ [][(~Quiet \/ ~PkgQuiet) =>
              /\ EffectMeasure <= 3
              /\ EffectMeasure' < EffectMeasure]_vars
    /\ (~Quiet \/ ~PkgQuiet) ~> (Quiet /\ PkgQuiet)

\* the Package admin at rest after a package was added: its key is in the
\* mapping and the blob holds the list with it
C35_Witness ==
    /\ PkgQuiet
    /\ Len(packages) > Len(defaultPackages)
    /\ DOMAIN pkgMapping = RoleIdsOf(packages)
    /\ pkgStored.kind = "json"
    /\ pkgStored.v.packages = packages

====
